---- MODULE Spec2Model ----
(***************************************************************************)
(* Model of the heap allocators of rust_os: the fixed-size-block allocator *)
(* (allocator/fixed_size_block.rs), the bump allocator and the Locked      *)
(* spin-lock wrapper (allocator/bump.rs).                                  *)
(*                                                                         *)
(* Addresses are machine words of WordBits bits.  The fallback allocator   *)
(* (linked_list_allocator::Heap) is an external crate: it is modelled at   *)
(* its call sites by its contract, an aligned region inside the heap that  *)
(* is disjoint from every region it has handed out and not got back.       *)
(***************************************************************************)
EXTENDS Integers, Sequences, FiniteSets, Bags, TLC

(***************************************************************************)
(* Bounds of the model.                                                    *)
(***************************************************************************)
\* width of usize / of an address, in bits (64 on the x86_64 target)
WordBits == 14
\* heap handed to FixedSizeBlockAllocator::init (stand-ins for HEAP_START, HEAP_SIZE)
HeapStart == 4096
HeapSize == 4096
\* largest number of simultaneously live allocations
MaxLive == 2
\* heap handed to BumpAllocator::init, in the last quarter of the address space
BumpHeapStart == 12288
BumpHeapSize == 3072
\* largest number of calls made to the bump allocator
MaxBumpCalls == 8
\* size of a page and of a frame (stand-in for the 4 KiB of Size4KiB)
PageSize == 1024
\* largest number of usable frames in the memory map
MaxFrames == 6
\* largest number of page tables one map_to creates
MaxTableFrames == 1

(***************************************************************************)
(* Program constants.                                                      *)
(***************************************************************************)
\* ptr::null_mut()
NULL == 0
\* mem::size_of::<ListNode>() and mem::align_of::<ListNode>(): one 64-bit pointer
LIST_NODE_ALIGN == 8

\* the size of a node that also stores the size of its block
LIST_NODE_SIZE_with_size == 2 * LIST_NODE_ALIGN

LIST_NODE_SIZE == 8

BLOCK_SIZES == <<8, 16, 32, 64, 128, 256, 512, 1024, 2048>>

(***************************************************************************)
(* Machine words and core::alloc::Layout.                                  *)
(***************************************************************************)
USIZE_MAX == 2^WordBits - 1
ISIZE_MAX == 2^(WordBits - 1) - 1

Max(a, b) == IF a >= b THEN a ELSE b

Pow2s == {2^k : k \in 0..(WordBits - 1)}

\* Layout::from_size_align: Ok iff align is a power of two and size, rounded
\* up to align, does not exceed isize::MAX
LayoutOk(size, align) ==
    /\ align \in Pow2s
    /\ size <= ISIZE_MAX - (align - 1)

\* the layouts the callers of the fixed-size-block allocator use:
\*   class 512 under two layouts, class 2048 (exact), two oversized ones
Layouts == { <<500, 8>>, <<260, 256>>, <<2048, 4>>, <<2560, 512>>, <<16, 4096>> }

(***************************************************************************)
(* State.                                                                  *)
(***************************************************************************)
VARIABLES
    \* FixedSizeBlockAllocator
    list_heads,     \* index -> address of the head node, NULL for None
    node_next,      \* memory of the free blocks: node address -> next (NULL for None)
    fb_bottom,      \* fallback_allocator: start of its heap
    fb_size,        \* fallback_allocator: size of its heap, 0 for Heap::empty()
    fb_used,        \* fallback_allocator: regions <<addr, size>> handed out, not given back
    freed_as,       \* node address -> the layout <<size, align>> it was freed with
    fsb_live,       \* callers' view: bag of allocations <<addr, size, align>> not yet freed
    last_freed,     \* index -> block freed by the latest call of that class, NULL if it was an alloc
    \* outcome of the latest call
    last,           \* [op, size, align, ptr, fb, freed]:
                    \*   fb = <<>> or the fallback call <<op, size, align, ptr, result>>
                    \*   freed = <<>> or the layout the popped block was freed with
    panicked,       \* a panic (unwrap / assert! / overflow check) halted the kernel
    \* BumpAllocator
    heap_start,
    heap_end,
    next,
    allocations,
    bump_live,      \* callers' view: bag of allocations <<addr, size, align>> not yet freed
    cycle,          \* callers' view: the allocations since the allocator was last empty,
                    \*   [first, align, clean, done] (see CycleNew)
    bump_calls,     \* number of calls made to the bump allocator
    overflow_checks,\* the build panics on arithmetic overflow (debug) or wraps (release)
    \* Locked<A> and its callers
    lock,           \* instance -> the spin::Mutex of the instance is held
    pc,             \* context -> "idle", "lock" (in Locked::lock), "body", "drop"
    call,           \* context -> the call it is making: [inst, op, size, align, ptr]
    in_irq,         \* an interrupt handler runs on top of the main context
    installed,      \* the instance that is the allocator of the kernel
    \* a pure function applied to one input
    probe,          \* [fn, size, align, out]: out = <<>> before the function is applied
    \* init_heap, the page table and the frame allocator it is given
    boot,           \* [pc, page, frame, inits, result]: position of init_heap, the page
                    \*   it is at, the frame it holds, the calls of init made, its result
    mapped,         \* the page table: set of mappings <<page, frame, flags>>
    frames,         \* the frame allocator: [next, total], frames handed out and usable
    \* the console locks, the interrupt controller and the interrupt flag
    interrupts_enabled, \* the interrupt flag of the CPU
    handler,        \* the interrupt handler that runs: "none", "timer", "keyboard"
    klock,          \* WRITER, SERIAL1, PICS, KEYBOARD -> the context that holds it, "none"
    kpc,            \* context -> its position in the operation it runs
    kop,            \* context -> the operation it runs
    was_enabled,    \* context -> the flag its without_interrupts saved
    pics_initialized, \* lib::init has run
    \* vga_buffer::Writer
    column_position, \* the column of the last row the next byte goes to
    buffer,         \* row -> column -> ascii_character of the cell
    written,        \* history: the bytes given to the writer so far
    \* memory::BootInfoFrameAllocator
    memory_map,     \* the regions of the boot loader's memory map, in order
    returned        \* history: what each call of allocate_frame returned

fsbVars == <<list_heads, node_next, fb_bottom, fb_size, fb_used, freed_as, fsb_live,
            last_freed>>
lockVars == <<lock, pc, call, in_irq, installed>>
bumpVars == <<heap_start, heap_end, next, allocations, bump_live, cycle>>
bootVars == <<boot, mapped, frames>>
kernVars == <<interrupts_enabled, handler, klock, kpc, kop, was_enabled, pics_initialized>>
vgaVars == <<column_position, buffer, written>>
frameVars == <<memory_map, returned>>
vars == <<list_heads, node_next, fb_bottom, fb_size, fb_used, freed_as, fsb_live,
          last_freed, last, panicked, heap_start, heap_end, next, allocations,
          bump_live, cycle, bump_calls, overflow_checks, lock, pc, call, in_irq, installed, probe,
          boot, mapped, frames, interrupts_enabled, handler, klock, kpc, kop,
          was_enabled, pics_initialized, column_position, buffer, written,
          memory_map, returned>>

Indices == 0..(Len(BLOCK_SIZES) - 1)
BlockSize(index) == BLOCK_SIZES[index + 1]

Call(op, size, align, ptr, fb, freed) ==
    [op |-> op, size |-> size, align |-> align, ptr |-> ptr, fb |-> fb, freed |-> freed,
     path |-> "fsb"]

\* a call of the bump allocator and the path it took
BumpCall(op, size, align, ptr, path) ==
    [op |-> op, size |-> size, align |-> align, ptr |-> ptr, fb |-> <<>>,
     freed |-> <<>>, path |-> path]

NoCall == Call("new", 0, 0, NULL, <<>>, <<>>)

\* bags of live allocations
Live(bag) == BagToSet(bag)
AddLive(bag, a) == bag (+) SetToBag({a})
RemoveLive(bag, a) == bag (-) SetToBag({a})

(***************************************************************************)
(* fixed_size_block.rs                                                     *)
(***************************************************************************)
\* a scan that skips the class of exactly the required size
RECURSIVE position_strict(_, _)
position_strict(i, required) ==
    IF i >= Len(BLOCK_SIZES) THEN <<>>
    ELSE IF BLOCK_SIZES[i + 1] > required THEN <<i>>
    ELSE position_strict(i + 1, required)

RECURSIVE position(_, _)
position(i, required) ==
    IF i >= Len(BLOCK_SIZES) THEN <<>>
    ELSE IF BLOCK_SIZES[i + 1] >= required THEN <<i>>
    ELSE position(i + 1, required)

list_index(size, align) ==
    LET required_block_size == Max(size, align)
    IN  position(0, required_block_size)

\* a class choice that serves oversized requests from the largest class
class_index_clamped(size, align) ==
    IF list_index(size, align) = <<>> THEN <<Len(BLOCK_SIZES) - 1>>
    ELSE list_index(size, align)

\* a class choice that finds no class for any layout
class_index_never(size, align) == <<>>

\* the class alloc and dealloc use for a layout
class_index(size, align) == list_index(size, align)

\* FixedSizeBlockAllocator::new
FsbNew ==
    /\ list_heads = [i \in Indices |-> NULL]
    /\ node_next = <<>>
    /\ fb_bottom = 0
    /\ fb_size = 0
    /\ fb_used = {}
    /\ freed_as = <<>>
    /\ fsb_live = EmptyBag
    /\ last_freed = [i \in Indices |-> NULL]

Disjoint(a1, s1, a2, s2) == a1 + s1 <= a2 \/ a2 + s2 <= a1

\* the regions allocate_first_fit may return: aligned, inside the heap, free
Fits(size, align) ==
    LET aligned == { k * align :
                       k \in ((fb_bottom + align - 1) \div align) ..
                             ((fb_bottom + fb_size - size) \div align) }
    IN  { a \in aligned :
            /\ a # NULL
            /\ \A r \in fb_used : Disjoint(a, size, r[1], r[2]) }

\* allocate_first_fit(layout): Ok(ptr) for a fitting region, Err when none fits
allocate_first_fit(size, align) ==
    IF Fits(size, align) = {} THEN {<<"Err">>}
    ELSE { <<"Ok", a>> : a \in Fits(size, align) }

\* a fallback_alloc that unwraps the result of allocate_first_fit
fallback_alloc_unwrap(res) ==
    IF res[1] = "Ok" THEN [ptr |-> res[2], panic |-> FALSE]
    ELSE [ptr |-> NULL, panic |-> TRUE]

\* fallback_alloc: the pointer on Ok, null on Err
fallback_alloc(res) ==
    IF res[1] = "Ok" THEN [ptr |-> res[2], panic |-> FALSE]
    ELSE [ptr |-> NULL, panic |-> FALSE]

\* a new block aligned for a ListNode only
block_align_node(block_size) == LIST_NODE_ALIGN

\* the layout alloc builds for a new block of a class
block_align(block_size) == block_size

\* take a block from the fallback allocator for the layout (size, align):
\* req is the caller's (size, align), kept in the record of the call
FallbackAllocStep(req, size, align) ==
    \E res \in allocate_first_fit(size, align) :
        LET out == fallback_alloc(res)
        IN  /\ panicked' = out.panic
            /\ fb_used' = IF out.ptr # NULL /\ ~out.panic
                          THEN fb_used \cup {<<out.ptr, size>>} ELSE fb_used
            /\ fsb_live' = IF out.ptr # NULL /\ ~out.panic
                           THEN AddLive(fsb_live, <<out.ptr, req[1], req[2]>>)
                           ELSE fsb_live
            /\ last' = Call("alloc", req[1], req[2], out.ptr,
                            <<"alloc", size, align, out.ptr, res[1]>>, <<>>)

\* a pop that leaves the node at the head of its list
PopStepKeepHead(size, align, index) ==
    LET node == list_heads[index]
    IN  /\ fsb_live' = AddLive(fsb_live, <<node, size, align>>)
        /\ last' = Call("alloc", size, align, node, <<>>, freed_as[node])
        /\ UNCHANGED <<list_heads, node_next, freed_as, fb_used, panicked>>

\* the node popped from the list of a class becomes the allocation
PopStep(size, align, index) ==
    LET node == list_heads[index]
    IN  /\ list_heads' = [list_heads EXCEPT ![index] = node_next[node]]
        /\ node_next' = [a \in (DOMAIN node_next) \ {node} |-> node_next[a]]
        /\ freed_as' = [a \in (DOMAIN freed_as) \ {node} |-> freed_as[a]]
        /\ fsb_live' = AddLive(fsb_live, <<node, size, align>>)
        /\ last' = Call("alloc", size, align, node, <<>>, freed_as[node])
        /\ UNCHANGED <<fb_used, panicked>>

\* GlobalAlloc::alloc for Locked<FixedSizeBlockAllocator>
FsbAllocBody(size, align) ==
    LET idx == class_index(size, align)
    IN  /\ UNCHANGED <<fb_bottom, fb_size>>
        /\ IF idx # <<>>
           THEN LET index == idx[1]
                IN  /\ last_freed' = [last_freed EXCEPT ![index] = NULL]
                    /\ IF list_heads[index] # NULL
                       THEN PopStep(size, align, index)
                       ELSE LET block_size == BlockSize(index)
                            IN  IF LayoutOk(block_size, block_align(block_size))
                                THEN /\ FallbackAllocStep(<<size, align>>, block_size,
                                                          block_align(block_size))
                                     /\ UNCHANGED <<list_heads, node_next, freed_as>>
                                ELSE \* Layout::from_size_align(..).unwrap() panics
                                     /\ panicked' = TRUE
                                     /\ last' = Call("alloc", size, align, NULL,
                                                     <<>>, <<>>)
                                     /\ UNCHANGED <<list_heads, node_next, fb_used,
                                                    freed_as, fsb_live>>
           ELSE /\ FallbackAllocStep(<<size, align>>, size, align)
                /\ UNCHANGED <<list_heads, node_next, freed_as, last_freed>>

\* the two assert!s of dealloc: a block of the class can store a ListNode
node_fits(index) ==
    /\ LIST_NODE_SIZE <= BlockSize(index)
    /\ LIST_NODE_ALIGN <= BlockSize(index)

\* the last node of the list that starts at node a
RECURSIVE LastNode(_)
LastNode(a) == IF node_next[a] = NULL THEN a ELSE LastNode(node_next[a])

\* a push that appends the freed block at the end of the list of its class
PushStepTail(ptr, size, align, index) ==
    /\ node_next' = [a \in (DOMAIN node_next) \cup {ptr} |->
                       IF a = ptr THEN NULL
                       ELSE IF list_heads[index] # NULL
                               /\ a = LastNode(list_heads[index]) THEN ptr
                       ELSE node_next[a]]
    /\ freed_as' = [a \in (DOMAIN freed_as) \cup {ptr} |->
                      IF a = ptr THEN <<size, align>> ELSE freed_as[a]]
    /\ list_heads' = IF list_heads[index] = NULL
                     THEN [list_heads EXCEPT ![index] = ptr] ELSE list_heads

\* a push that forgets the previous head: the link of the new node is None
PushStepUnlinked(ptr, size, align, index) ==
    /\ node_next' = [a \in (DOMAIN node_next) \cup {ptr} |->
                       IF a = ptr THEN NULL ELSE node_next[a]]
    /\ freed_as' = [a \in (DOMAIN freed_as) \cup {ptr} |->
                      IF a = ptr THEN <<size, align>> ELSE freed_as[a]]
    /\ list_heads' = [list_heads EXCEPT ![index] = ptr]

\* the freed block becomes the head node of the list of its class
PushStep(ptr, size, align, index) ==
    /\ node_next' = [a \in (DOMAIN node_next) \cup {ptr} |->
                       IF a = ptr THEN list_heads[index] ELSE node_next[a]]
    /\ freed_as' = [a \in (DOMAIN freed_as) \cup {ptr} |->
                      IF a = ptr THEN <<size, align>> ELSE freed_as[a]]
    /\ list_heads' = [list_heads EXCEPT ![index] = ptr]

\* GlobalAlloc::dealloc for Locked<FixedSizeBlockAllocator>
FsbDeallocBody(ptr, size, align) ==
    LET idx == class_index(size, align)
        done(fb) == Call("dealloc", size, align, ptr, fb, <<>>)
    IN  /\ UNCHANGED <<fb_bottom, fb_size>>
        /\ fsb_live' = RemoveLive(fsb_live, <<ptr, size, align>>)
        /\ IF idx # <<>>
           THEN LET index == idx[1]
                IN  IF node_fits(index)
                    THEN /\ PushStep(ptr, size, align, index)
                         /\ last_freed' = [last_freed EXCEPT ![index] = ptr]
                         /\ last' = done(<<>>)
                         /\ UNCHANGED <<fb_used, panicked>>
                    ELSE \* assert! fails; the head has been taken
                         /\ list_heads' = [list_heads EXCEPT ![index] = NULL]
                         /\ panicked' = TRUE
                         /\ last' = done(<<>>)
                         /\ UNCHANGED <<node_next, fb_used, freed_as, last_freed>>
           ELSE IF ptr = NULL
                THEN \* NonNull::new(ptr).unwrap() panics
                     /\ panicked' = TRUE
                     /\ last' = done(<<>>)
                     /\ UNCHANGED <<list_heads, node_next, fb_used, freed_as,
                                    last_freed>>
                ELSE /\ fb_used' = fb_used \ {<<ptr, size>>}
                     /\ last' = done(<<"dealloc", size, align, ptr, "Ok">>)
                     /\ UNCHANGED <<list_heads, node_next, freed_as, last_freed,
                                    panicked>>

\* FixedSizeBlockAllocator::init, as called by init_heap
FsbInitBody(start, heap_size) ==
    /\ fb_bottom' = start
    /\ fb_size' = heap_size
    /\ last' = Call("init", heap_size, 0, start, <<>>, <<>>)
    /\ UNCHANGED <<list_heads, node_next, fb_used, freed_as, fsb_live, last_freed,
                   panicked>>

(***************************************************************************)
(* allocator.rs and bump.rs                                                *)
(***************************************************************************)
\* a + b on usize: the wrapped value, and whether the sum overflowed
Add(a, b) == [val |-> (a + b) % (USIZE_MAX + 1), ovf |-> a + b > USIZE_MAX]

\* align_up without the branch for an aligned address
align_up_always(addr, align) ==
    LET remainder == addr % align
    IN  Add(addr - remainder, align)

\* an alloc that takes next as it is
align_up_skipped(addr, align) == [val |-> addr, ovf |-> FALSE]

\* align_up(addr, align): the result of addr - remainder + align, with the
\* overflow of the addition
align_up(addr, align) ==
    LET remainder == addr % align
    IN  IF remainder = 0
        THEN [val |-> addr, ovf |-> FALSE]
        ELSE Add(addr - remainder, align)

\* The cycle of allocations the callers are in:
\*   first, align: address and alignment of the first successful alloc since
\*                 the count of allocations was last 0 (NULL: none yet)
\*   n:            number of successful allocs since then
\*   clean:        every alloc since then returned an address
\*   done:         all of them have been deallocated by the latest call
\*   prev, prev_n: first and n of the cycle that was done when this one began
CycleNew ==
    [first |-> NULL, align |-> 0, n |-> 0, clean |-> TRUE, done |-> FALSE,
     prev |-> NULL, prev_n |-> 0]

\* the cycle after an alloc that returned ptr and left the count at count
CycleAfterAlloc(ptr, align, count) ==
    IF ptr = NULL
    THEN IF count = 0 THEN CycleNew
         ELSE [cycle EXCEPT !.clean = FALSE, !.done = FALSE]
    ELSE IF cycle.done
    THEN [CycleNew EXCEPT !.first = ptr, !.align = align, !.n = 1,
                          !.prev = cycle.first, !.prev_n = cycle.n]
    ELSE IF cycle.first = NULL
    THEN [cycle EXCEPT !.first = ptr, !.align = align, !.n = 1]
    ELSE [cycle EXCEPT !.n = @ + 1]

\* the cycle after a dealloc that left the allocations live and the count at
\* count
CycleAfterDealloc(live, count) ==
    IF live = EmptyBag /\ cycle.clean /\ cycle.first # NULL
    THEN [cycle EXCEPT !.done = TRUE]
    ELSE IF count = 0 THEN CycleNew
    ELSE cycle

\* a - b on usize: the wrapped value, and whether the difference underflowed
Sub(a, b) == [val |-> (a - b) % (USIZE_MAX + 1), ovf |-> a < b]

\* a & b on usize, bit by bit from the lowest of the bits left
RECURSIVE BitAnd(_, _, _)
BitAnd(a, b, bits) ==
    IF bits = 0 THEN 0
    ELSE (a % 2) * (b % 2) + 2 * BitAnd(a \div 2, b \div 2, bits - 1)

\* !a on usize
BitNot(a) == USIZE_MAX - a

\* align_up_complicated(addr, align): (addr + align - 1) & !(align - 1), with
\* the overflow of the addition and of the subtractions
align_up_complicated(addr, align) ==
    LET sum == Add(addr, align)
        top == Sub(sum.val, 1)
        low == Sub(align, 1)
    IN  [val |-> BitAnd(top.val, BitNot(low.val), WordBits),
         ovf |-> sum.ovf \/ top.ovf \/ low.ovf]

\* what the caller of a function sees: a panic when an operation overflowed
\* in a build with overflow checks, the value otherwise
Outcome(r) == IF r.ovf /\ overflow_checks THEN <<"panic">> ELSE <<"ok", r.val>>

\* BumpAllocator::new
BumpNew ==
    /\ heap_start = 0
    /\ heap_end = 0
    /\ next = 0
    /\ allocations = 0
    /\ bump_live = EmptyBag
    /\ cycle = CycleNew
    /\ bump_calls = 0

\* BumpAllocator::init
BumpInitBody(start, heap_size) ==
    LET end == Add(start, heap_size)
    IN  IF end.ovf /\ overflow_checks
        THEN /\ panicked' = TRUE
             /\ heap_start' = start
             /\ last' = BumpCall("init", heap_size, 0, start, "panic")
             /\ UNCHANGED <<heap_end, next, allocations, bump_live>>
        ELSE /\ heap_start' = start
             /\ heap_end' = end.val
             /\ next' = start
             /\ last' = BumpCall("init", heap_size, 0, start, "ok")
             /\ UNCHANGED <<allocations, bump_live, panicked>>

\* a dealloc that resets next whenever it is called
ResetNextAlways(count) == TRUE

\* a dealloc that tests the count it read before the decrement
ResetNextBeforeDecrement(count) == count + 1 = 0

\* dealloc resets next when the count of allocations has reached 0
ResetNext(count) == count = 0

\* GlobalAlloc::alloc for Locked<BumpAllocator>
BumpAllocBody(size, align) ==
    LET start == align_up(next, align)
        alloc_start == start.val
        end == Add(alloc_start, size)
        alloc_end == end.val
        count == Add(allocations, 1)
    IN  /\ UNCHANGED <<heap_start, heap_end>>
        /\ IF start.ovf /\ overflow_checks
           THEN \* attempt to add with overflow
                /\ panicked' = TRUE
                /\ last' = BumpCall("alloc", size, align, NULL, "panic")
                /\ UNCHANGED <<next, allocations, bump_live>>
           ELSE IF end.ovf
           THEN \* checked_add returns None
                /\ last' = BumpCall("alloc", size, align, NULL, "overflow")
                /\ UNCHANGED <<next, allocations, bump_live, panicked>>
           ELSE IF alloc_end > heap_end
           THEN \* out of memory
                /\ last' = BumpCall("alloc", size, align, NULL, "oom")
                /\ UNCHANGED <<next, allocations, bump_live, panicked>>
           ELSE IF count.ovf /\ overflow_checks
           THEN /\ next' = alloc_end
                /\ panicked' = TRUE
                /\ last' = BumpCall("alloc", size, align, NULL, "panic")
                /\ UNCHANGED <<allocations, bump_live>>
           ELSE /\ next' = alloc_end
                /\ allocations' = count.val
                /\ bump_live' = IF alloc_start # NULL
                                THEN AddLive(bump_live, <<alloc_start, size, align>>)
                                ELSE bump_live
                /\ last' = BumpCall("alloc", size, align, alloc_start, "ok")
                /\ UNCHANGED panicked

\* GlobalAlloc::dealloc for Locked<BumpAllocator>
BumpDeallocBody(ptr, size, align) ==
    LET underflow == allocations = 0
        count == IF underflow THEN USIZE_MAX ELSE allocations - 1
    IN  /\ UNCHANGED <<heap_start, heap_end>>
        /\ bump_live' = RemoveLive(bump_live, <<ptr, size, align>>)
        /\ IF underflow /\ overflow_checks
           THEN \* attempt to subtract with overflow
                /\ panicked' = TRUE
                /\ last' = BumpCall("dealloc", size, align, ptr, "panic")
                /\ UNCHANGED <<next, allocations>>
           ELSE /\ allocations' = count
                /\ next' = IF ResetNext(count) THEN heap_start ELSE next
                /\ last' = BumpCall("dealloc", size, align, ptr,
                                    IF ResetNext(count) THEN "reset" ELSE "ok")
                /\ UNCHANGED panicked

(***************************************************************************)
(* memory::BootInfoFrameAllocator.  A region of the memory map is a range  *)
(* of frame numbers [start_frame, end_frame) with a type.                  *)
(***************************************************************************)
\* no memory map has been passed and no frame asked for
FrameNew ==
    /\ memory_map = <<>>
    /\ returned = <<>>

\* r.range.start_addr() .. r.range.end_addr(), stepped by the frame size and
\* turned back into frames by PhysFrame::containing_address
RegionFrames(r) ==
    LET start_addr == r.start_frame * PageSize
        end_addr == r.end_frame * PageSize
        steps == (end_addr - start_addr + PageSize - 1) \div PageSize
    IN  [k \in 1..steps |-> (start_addr + (k - 1) * PageSize) \div PageSize]

\* a filter that lets the regions of every type through
is_usable_any(r) == TRUE

\* the filter of usable_frames: r.region_type == MemoryRegionType::Usable
is_usable(r) == r.region_type = "Usable"

\* usable_frames: the frames of the usable regions from region i on
RECURSIVE usable_frames(_, _)
usable_frames(map, i) ==
    IF i > Len(map) THEN <<>>
    ELSE (IF is_usable(map[i]) THEN RegionFrames(map[i]) ELSE <<>>)
            \o usable_frames(map, i + 1)

\* Iterator::nth(n): <<x>> for Some(x), <<>> for None
nth(seq, n) == IF n < Len(seq) THEN <<seq[n + 1]>> ELSE <<>>

\* FrameAllocator::allocate_frame for BootInfoFrameAllocator
AllocateFrameBody ==
    LET frame == nth(usable_frames(memory_map, 1), frames.next)
    IN  /\ frames' = [frames EXCEPT !.next = @ + 1]
        /\ returned' = Append(returned, frame)
        /\ UNCHANGED memory_map

(***************************************************************************)
(* Locked<A> (bump.rs) and the contexts that call the allocators.          *)
(***************************************************************************)
\* the two Locked allocators
Instances == {"fsb", "bump"}
\* the kernel runs on one CPU: the main context, and an interrupt handler
\* that runs on top of it until it returns
Contexts == {"main", "irq"}

NoOp == [inst |-> "fsb", op |-> "none", size |-> 0, align |-> 0, ptr |-> NULL]

\* Locked::new
LockedNew ==
    /\ lock = [i \in Instances |-> FALSE]
    /\ pc = [c \in Contexts |-> "idle"]
    /\ call = [c \in Contexts |-> NoOp]
    /\ in_irq = FALSE

\* the context the CPU executes
Running == IF in_irq THEN "irq" ELSE "main"

\* the contexts between the acquisition and the release of the lock of inst
Holders(inst) == { c \in Contexts : pc[c] \in {"body", "drop"} /\ call[c].inst = inst }

\* a lock() that does not wait for the holder
AcquireNoWait(c) ==
    /\ ~panicked
    /\ c = Running
    /\ pc[c] = "lock"
    /\ lock' = [lock EXCEPT ![call[c].inst] = TRUE]
    /\ pc' = [pc EXCEPT ![c] = "body"]
    /\ UNCHANGED <<fsbVars, bumpVars, bump_calls, overflow_checks, frameVars, vgaVars, kernVars, bootVars, call, in_irq, installed,
                   last, panicked, probe>>

\* a lock() that a context may take again over the context it interrupted
AcquireReentrant(c) ==
    /\ ~panicked
    /\ c = Running
    /\ pc[c] = "lock"
    /\ ~lock[call[c].inst] \/ (c = "irq" /\ "main" \in Holders(call[c].inst))
    /\ lock' = [lock EXCEPT ![call[c].inst] = TRUE]
    /\ pc' = [pc EXCEPT ![c] = "body"]
    /\ UNCHANGED <<fsbVars, bumpVars, bump_calls, overflow_checks, frameVars, vgaVars, kernVars, bootVars, call, in_irq, installed,
                   last, panicked, probe>>

\* Locked::lock: spin::Mutex::lock returns once it has set the free lock
Acquire(c) ==
    /\ ~panicked
    /\ c = Running
    /\ pc[c] = "lock"
    /\ ~lock[call[c].inst]
    /\ lock' = [lock EXCEPT ![call[c].inst] = TRUE]
    /\ pc' = [pc EXCEPT ![c] = "body"]
    /\ UNCHANGED <<fsbVars, bumpVars, bump_calls, overflow_checks, frameVars, vgaVars, kernVars, bootVars, call, in_irq, installed,
                   last, panicked, probe>>

\* a release that is skipped on the early return of the bump alloc
ReleaseNotOnEarlyReturn(c) ==
    /\ ~panicked
    /\ c = Running
    /\ pc[c] = "drop"
    /\ lock' = IF last.path = "overflow" THEN lock
               ELSE [lock EXCEPT ![call[c].inst] = FALSE]
    /\ pc' = [pc EXCEPT ![c] = "idle"]
    /\ call' = [call EXCEPT ![c] = NoOp]
    /\ UNCHANGED <<fsbVars, bumpVars, bump_calls, overflow_checks, frameVars, vgaVars, kernVars, bootVars, in_irq, installed,
                   last, panicked, probe>>

\* the MutexGuard is dropped when alloc, dealloc or the init statement returns
Release(c) ==
    /\ ~panicked
    /\ c = Running
    /\ pc[c] = "drop"
    /\ lock' = [lock EXCEPT ![call[c].inst] = FALSE]
    /\ pc' = [pc EXCEPT ![c] = "idle"]
    /\ call' = [call EXCEPT ![c] = NoOp]
    /\ UNCHANGED <<fsbVars, bumpVars, bump_calls, overflow_checks, frameVars, vgaVars, kernVars, bootVars, in_irq, installed,
                   last, panicked, probe>>

\* the body of the call, executed by the holder of the lock
Body(c) ==
    /\ ~panicked
    /\ c = Running
    /\ pc[c] = "body"
    /\ pc' = [pc EXCEPT ![c] = "drop"]
    /\ LET k == call[c]
       IN  IF k.inst = "fsb"
           THEN /\ CASE k.op = "init" -> FsbInitBody(k.ptr, k.size)
                     [] k.op = "alloc" -> FsbAllocBody(k.size, k.align)
                     [] k.op = "dealloc" -> FsbDeallocBody(k.ptr, k.size, k.align)
                /\ UNCHANGED bumpVars
           ELSE /\ CASE k.op = "init" -> BumpInitBody(k.ptr, k.size)
                     [] k.op = "alloc" -> BumpAllocBody(k.size, k.align)
                     [] k.op = "dealloc" -> BumpDeallocBody(k.ptr, k.size, k.align)
                /\ UNCHANGED <<cycle, fsbVars>>
    /\ UNCHANGED <<bump_calls, overflow_checks, frameVars, vgaVars, kernVars, bootVars, lock, call, in_irq, installed, probe>>

(***************************************************************************)
(* init_heap (allocator.rs).                                               *)
(***************************************************************************)
\* before init_heap is called: nothing mapped, no frame handed out
BootNew ==
    /\ boot = [pc |-> "idle", page |-> 0, frame |-> <<>>, inits |-> 0, result |-> <<>>]
    /\ mapped = {}
    /\ frames = [next |-> 0, total |-> 0]

\* Page::containing_address: the number of the page that holds addr
containing_address(addr) == addr \div PageSize

\* a range of pages that leaves out the page of the last heap byte
page_range_exclusive ==
    containing_address(HeapStart)..(containing_address(HeapStart + HeapSize - 1) - 1)

\* page_range: Page::range_inclusive(heap_start_page, heap_end_page)
page_range ==
    containing_address(HeapStart)..containing_address(HeapStart + HeapSize - 1)

\* PageTableFlags::PRESENT | PageTableFlags::WRITABLE
HeapFlags == {"PRESENT", "WRITABLE"}

\* FrameAllocator::allocate_frame: the next usable frame, <<>> for None
allocate_frame == IF frames.next < frames.total THEN <<frames.next>> ELSE <<>>

\* an init_heap that leaves the loop on an error and goes on to init
IhFailIgnored(err) ==
    boot' = [boot EXCEPT !.pc = "init", !.frame = <<>>]

\* the ? operator: init_heap returns the error
IhFail(err) ==
    boot' = [boot EXCEPT !.pc = "done", !.frame = <<>>, !.result = <<"Err", err>>]

\* init_heap is called: the loop starts at the first page of the range
IhCallBody ==
    /\ boot' = [boot EXCEPT !.pc = "frame", !.page = containing_address(HeapStart)]
    /\ UNCHANGED <<mapped, frames>>

\* frame_allocator.allocate_frame().ok_or(MapToError::FrameAllocationFailed)?
IhAllocateFrameBody ==
    /\ frames' = [frames EXCEPT !.next = @ + 1]
    /\ IF allocate_frame = <<>>
       THEN IhFail("FrameAllocationFailed")
       ELSE boot' = [boot EXCEPT !.pc = "map", !.frame = allocate_frame]
    /\ UNCHANGED mapped

\* mapper.map_to(page, frame, flags, frame_allocator)?.flush(): the mapper
\* takes `tables` frames for new page tables, then fills the entry of the page
IhMapToBody(tables) ==
    LET usable == IF frames.next < frames.total THEN frames.total - frames.next ELSE 0
    IN  IF tables > usable
        THEN /\ frames' = [frames EXCEPT !.next = @ + usable + 1]
             /\ IhFail("FrameAllocationFailed")
             /\ UNCHANGED mapped
        ELSE /\ frames' = [frames EXCEPT !.next = @ + tables]
             /\ IF \E m \in mapped : m[1] = boot.page
                THEN /\ IhFail("PageAlreadyMapped")
                     /\ UNCHANGED mapped
                ELSE /\ mapped' = mapped \cup {<<boot.page, boot.frame[1], HeapFlags>>}
                     /\ boot' = IF boot.page + 1 \in page_range
                                THEN [boot EXCEPT !.pc = "frame", !.page = @ + 1,
                                                  !.frame = <<>>]
                                ELSE [boot EXCEPT !.pc = "init", !.frame = <<>>]

\* ALLOCATOR.lock().init(HEAP_START, HEAP_SIZE); Ok(())
IhInitBody ==
    /\ FsbInitBody(HeapStart, HeapSize)
    /\ boot' = [boot EXCEPT !.pc = "done", !.inits = @ + 1,
                            !.result = <<"Ok">>]
    /\ UNCHANGED <<mapped, frames>>

(***************************************************************************)
(* The console (vga_buffer.rs, serial.rs), lib::init and the interrupt     *)
(* handlers (interrupts.rs).                                               *)
(***************************************************************************)
KLocks == {"WRITER", "SERIAL1", "PICS", "KEYBOARD", "ALLOCATOR"}

\* the kernel at _start: interrupts are disabled, every lock is free
KernelNew ==
    /\ interrupts_enabled = FALSE
    /\ handler = "none"
    /\ klock = [l \in KLocks |-> "none"]
    /\ kpc = [c \in Contexts |-> "idle"]
    /\ kop = [c \in Contexts |-> "none"]
    /\ was_enabled = [c \in Contexts |-> FALSE]
    /\ pics_initialized = FALSE

\* the context that runs: a handler runs on top of the main context
KRunning == IF handler # "none" THEN "irq" ELSE "main"

\* the operations that print, and the lock each of them takes
PrintOps == {"print", "serial_print", "test_println_output"}

LockOf(op) == IF op = "serial_print" THEN "SERIAL1" ELSE "WRITER"

\* a _print that leaves the interrupt flag as it found it
section_flag_kept(saved) == saved

\* without_interrupts: the interrupt flag while the closure runs
section_flag(saved) == FALSE

\* without_interrupts reads the flag: let saved = are_enabled()
AreEnabled(c) ==
    /\ kpc[c] = "are_enabled"
    /\ was_enabled' = [was_enabled EXCEPT ![c] = interrupts_enabled]
    /\ kpc' = [kpc EXCEPT ![c] = "disable"]
    /\ UNCHANGED <<interrupts_enabled, handler, klock, kop, pics_initialized>>

\* if saved { disable() }
Disable(c) ==
    /\ kpc[c] = "disable"
    /\ interrupts_enabled' = IF was_enabled[c] THEN section_flag(was_enabled[c])
                             ELSE interrupts_enabled
    /\ kpc' = [kpc EXCEPT ![c] = "lock"]
    /\ UNCHANGED <<handler, klock, kop, was_enabled, pics_initialized>>

\* WRITER.lock() / SERIAL1.lock(): spins until the lock is free
KAcquire(c) ==
    /\ kpc[c] = "lock"
    /\ klock[LockOf(kop[c])] = "none"
    /\ klock' = [klock EXCEPT ![LockOf(kop[c])] = c]
    /\ kpc' = [kpc EXCEPT ![c] = "write"]
    /\ UNCHANGED <<interrupts_enabled, handler, kop, was_enabled, pics_initialized>>

\* write_fmt(args) / writeln!(writer, ..) and the reads of the buffer
KWrite(c) ==
    /\ kpc[c] = "write"
    /\ kpc' = [kpc EXCEPT ![c] = "unlock"]
    /\ UNCHANGED <<interrupts_enabled, handler, klock, kop, was_enabled,
                   pics_initialized>>

\* the guard is dropped
KRelease(c) ==
    /\ kpc[c] = "unlock"
    /\ klock' = [klock EXCEPT ![LockOf(kop[c])] = "none"]
    /\ kpc' = [kpc EXCEPT ![c] = "restore"]
    /\ UNCHANGED <<interrupts_enabled, handler, kop, was_enabled, pics_initialized>>

\* if saved { enable() }; the handler goes on to its end-of-interrupt
Restore(c) ==
    /\ kpc[c] = "restore"
    /\ interrupts_enabled' = IF was_enabled[c] THEN TRUE ELSE interrupts_enabled
    /\ kpc' = [kpc EXCEPT ![c] = IF c = "irq" THEN "eoi_lock" ELSE "idle"]
    /\ kop' = [kop EXCEPT ![c] = "none"]
    /\ UNCHANGED <<handler, klock, was_enabled, pics_initialized>>

\* the main context calls print!, serial_print! or test_println_output
StartPrint(op) ==
    /\ kpc["main"] = "idle"
    /\ kop' = [kop EXCEPT !["main"] = op]
    /\ kpc' = [kpc EXCEPT !["main"] = "are_enabled"]
    /\ UNCHANGED <<interrupts_enabled, handler, klock, was_enabled, pics_initialized>>

\* a lib::init that enables the interrupts before it locks PICS
init_flag_enabled_first(flag) == TRUE

\* lib::init: the interrupt flag when init comes to PICS.lock()
init_flag(flag) == flag

\* lib::init is called, once: init_idt() and gdt::init()
LibInitStart ==
    /\ kpc["main"] = "idle"
    /\ ~pics_initialized
    /\ kop["main"] = "none"
    /\ kop' = [kop EXCEPT !["main"] = "init"]
    /\ kpc' = [kpc EXCEPT !["main"] = "pics_lock"]
    /\ interrupts_enabled' = init_flag(interrupts_enabled)
    /\ UNCHANGED <<handler, klock, was_enabled, pics_initialized>>

\* lib::init: interrupts::PICS.lock()
LibInitLock ==
    /\ kpc["main"] = "pics_lock"
    /\ klock["PICS"] = "none"
    /\ klock' = [klock EXCEPT !["PICS"] = "main"]
    /\ kpc' = [kpc EXCEPT !["main"] = "initialize"]
    /\ UNCHANGED <<interrupts_enabled, handler, kop, was_enabled, pics_initialized>>

\* lib::init: .initialize(), and the guard is dropped
LibInitUnlock ==
    /\ kpc["main"] = "initialize"
    /\ klock' = [klock EXCEPT !["PICS"] = "none"]
    /\ pics_initialized' = TRUE
    /\ kpc' = [kpc EXCEPT !["main"] = "enable"]
    /\ UNCHANGED <<interrupts_enabled, handler, kop, was_enabled>>

\* lib::init: x86_64::instructions::interrupts::enable()
LibInitEnable ==
    /\ kpc["main"] = "enable"
    /\ interrupts_enabled' = TRUE
    /\ kpc' = [kpc EXCEPT !["main"] = "idle"]
    /\ kop' = [kop EXCEPT !["main"] = "none"]
    /\ UNCHANGED <<handler, klock, was_enabled, pics_initialized>>

\* the main context allocates or deallocates through ALLOCATOR: the call
\* comes to Locked::lock
KAllocStart ==
    /\ kpc["main"] = "idle"
    /\ kop' = [kop EXCEPT !["main"] = "alloc"]
    /\ kpc' = [kpc EXCEPT !["main"] = "alloc_lock"]
    /\ UNCHANGED <<interrupts_enabled, handler, klock, was_enabled, pics_initialized>>

\* Locked::lock on ALLOCATOR: spins until the lock is free
KAllocLock ==
    /\ kpc["main"] = "alloc_lock"
    /\ klock["ALLOCATOR"] = "none"
    /\ klock' = [klock EXCEPT !["ALLOCATOR"] = "main"]
    /\ kpc' = [kpc EXCEPT !["main"] = "alloc_body"]
    /\ UNCHANGED <<interrupts_enabled, handler, kop, was_enabled, pics_initialized>>

\* the body of alloc or dealloc returns and the guard is dropped
KAllocUnlock ==
    /\ kpc["main"] = "alloc_body"
    /\ klock' = [klock EXCEPT !["ALLOCATOR"] = "none"]
    /\ kpc' = [kpc EXCEPT !["main"] = "idle"]
    /\ kop' = [kop EXCEPT !["main"] = "none"]
    /\ UNCHANGED <<interrupts_enabled, handler, was_enabled, pics_initialized>>

Handlers == {"timer", "keyboard"}

\* the CPU enters a handler through an interrupt gate: only with the
\* interrupt flag set, and the gate clears the flag
IrqEntry(h) ==
    /\ interrupts_enabled
    /\ handler = "none"
    /\ handler' = h
    /\ interrupts_enabled' = FALSE
    /\ kpc' = [kpc EXCEPT !["irq"] = IF h = "keyboard" THEN "kbd_lock" ELSE "eoi_lock"]
    /\ UNCHANGED <<klock, kop, was_enabled, pics_initialized>>

\* keyboard_interrupt_handler: KEYBOARD.lock(), held to the end of the function
KbdLock ==
    /\ kpc["irq"] = "kbd_lock"
    /\ klock["KEYBOARD"] = "none"
    /\ klock' = [klock EXCEPT !["KEYBOARD"] = "irq"]
    /\ kpc' = [kpc EXCEPT !["irq"] = "kbd_read"]
    /\ UNCHANGED <<interrupts_enabled, handler, kop, was_enabled, pics_initialized>>

\* keyboard_interrupt_handler: the scancode is read and, when it decodes to a
\* key, the key is printed
KbdRead(key) ==
    /\ kpc["irq"] = "kbd_read"
    /\ kpc' = [kpc EXCEPT !["irq"] = IF key THEN "are_enabled" ELSE "eoi_lock"]
    /\ kop' = [kop EXCEPT !["irq"] = IF key THEN "print" ELSE "none"]
    /\ UNCHANGED <<interrupts_enabled, handler, klock, was_enabled, pics_initialized>>

\* both handlers: PICS.lock()
EoiLock ==
    /\ kpc["irq"] = "eoi_lock"
    /\ klock["PICS"] = "none"
    /\ klock' = [klock EXCEPT !["PICS"] = "irq"]
    /\ kpc' = [kpc EXCEPT !["irq"] = "eoi"]
    /\ UNCHANGED <<interrupts_enabled, handler, kop, was_enabled, pics_initialized>>

\* both handlers: notify_end_of_interrupt, and the guards are dropped
EoiUnlock ==
    /\ kpc["irq"] = "eoi"
    /\ klock' = [l \in KLocks |-> IF klock[l] = "irq" THEN "none" ELSE klock[l]]
    /\ kpc' = [kpc EXCEPT !["irq"] = "iret"]
    /\ UNCHANGED <<interrupts_enabled, handler, kop, was_enabled, pics_initialized>>

\* the handler returns: iret restores the interrupted context's flags
Iret ==
    /\ kpc["irq"] = "iret"
    /\ handler' = "none"
    /\ interrupts_enabled' = TRUE
    /\ kpc' = [kpc EXCEPT !["irq"] = "idle"]
    /\ UNCHANGED <<klock, kop, was_enabled, pics_initialized>>

(***************************************************************************)
(* vga_buffer::Writer.  The screen is scaled to BUFFER_HEIGHT rows of      *)
(* BUFFER_WIDTH columns; a cell holds its ascii_character (color_code is   *)
(* the same constant in every cell the writer writes).                     *)
(***************************************************************************)
BUFFER_HEIGHT == 3
BUFFER_WIDTH == 3

NEWLINE == 10
BLANK == 32
UNPRINTABLE == 254

Rows == 0..(BUFFER_HEIGHT - 1)
Cols == 0..(BUFFER_WIDTH - 1)

\* the match arm 0x20..=0x7e of write_string
Printable(byte) == 32 <= byte /\ byte <= 126

\* a writer; oob: an index outside the buffer was used (the kernel panics)
Writer(col, chars, oob) == [column_position |-> col, buffer |-> chars, oob |-> oob]

\* WRITER: column 0; the screen is taken blank (WriterInit varies it)
WriterNew ==
    /\ column_position = 0
    /\ buffer = [row \in Rows |-> [col \in Cols |-> BLANK]]
    /\ written = <<>>

clear_row(chars, row) ==
    [chars EXCEPT ![row] = [col \in Cols |-> BLANK]]

\* a new_line that leaves the rows where they are
shift_up_none(chars) == chars

\* the loop of new_line: every row but the first is copied to the row above
shift_up(chars) ==
    [row \in Rows |-> IF row + 1 \in Rows THEN chars[row + 1] ELSE chars[row]]

new_line(w) ==
    Writer(0, clear_row(shift_up(w.buffer), BUFFER_HEIGHT - 1), w.oob)

\* a test of the column that lets one byte more onto the row
line_full_late(col) == col > BUFFER_WIDTH

\* the test of write_byte before it writes: the last row is full
line_full(col) == col >= BUFFER_WIDTH

\* chars[row][col] is indexed: outside the array the kernel panics
write_byte(w, byte) ==
    IF w.oob THEN w
    ELSE IF byte = NEWLINE
    THEN new_line(w)
    ELSE LET v == IF line_full(w.column_position) THEN new_line(w) ELSE w
             row == BUFFER_HEIGHT - 1
             col == v.column_position
         IN  IF row \in Rows /\ col \in Cols
             THEN Writer(col + 1, [v.buffer EXCEPT ![row][col] = byte], FALSE)
             ELSE Writer(col, v.buffer, TRUE)

RECURSIVE write_string(_, _)
write_string(w, s) ==
    IF s = <<>>
    THEN w
    ELSE LET byte == Head(s)
         IN  write_string(write_byte(w, IF Printable(byte) \/ byte = NEWLINE
                                         THEN byte ELSE UNPRINTABLE),
                          Tail(s))

(***************************************************************************)
(* The fixed-size-block allocator used by one caller at a time: each       *)
(* action is one whole call (lock, body, unlock).                          *)
(***************************************************************************)
NoProbe == [fn |-> "none", size |-> 0, align |-> 0, out |-> <<>>]

Init ==
    /\ FsbNew
    /\ BumpNew
    /\ LockedNew
    /\ BootNew
    /\ KernelNew
    /\ FrameNew
    /\ WriterNew
    /\ installed = "fsb"
    /\ overflow_checks = FALSE
    /\ last = NoCall
    /\ panicked = FALSE
    /\ probe = NoProbe

init ==
    /\ ~panicked
    /\ fb_size = 0
    /\ FsbInitBody(HeapStart, HeapSize)
    /\ UNCHANGED <<bumpVars, bump_calls, overflow_checks, frameVars, vgaVars, kernVars, bootVars, lockVars, probe>>

alloc ==
    /\ ~panicked
    /\ BagCardinality(fsb_live) < MaxLive
    /\ \E l \in Layouts : FsbAllocBody(l[1], l[2])
    /\ UNCHANGED <<bumpVars, bump_calls, overflow_checks, frameVars, vgaVars, kernVars, bootVars, lockVars, probe>>

dealloc ==
    /\ ~panicked
    /\ \E a \in Live(fsb_live) : FsbDeallocBody(a[1], a[2], a[3])
    /\ UNCHANGED <<bumpVars, bump_calls, overflow_checks, frameVars, vgaVars, kernVars, bootVars, lockVars, probe>>

Next == init \/ alloc \/ dealloc

Spec == Init /\ [][Next]_vars

(***************************************************************************)
(* The bump allocator used by one caller at a time: each action is one     *)
(* whole call (lock, body, unlock).                                        *)
(***************************************************************************)
\* the layouts the callers of the bump allocator use: the size 1020 leaves
\* next off the 8-byte boundary
BumpLayouts == { <<1024, 8>>, <<1020, 4>>, <<512, 1024>>, <<8, 4096>> }

BumpSpecInit ==
    /\ FsbNew
    /\ BumpNew
    /\ LockedNew
    /\ BootNew
    /\ KernelNew
    /\ FrameNew
    /\ WriterNew
    /\ installed = "bump"
    /\ overflow_checks \in BOOLEAN
    /\ last = NoCall
    /\ panicked = FALSE
    /\ probe = NoProbe

\* the heaps init is given: one that starts on a page boundary and one that
\* starts a word after it
BumpHeapStarts == { BumpHeapStart, BumpHeapStart + 8 }

bump_init ==
    /\ ~panicked
    /\ heap_end = 0
    /\ \E start \in BumpHeapStarts : BumpInitBody(start, BumpHeapSize)
    /\ cycle' = CycleNew
    /\ bump_calls' = bump_calls + 1
    /\ UNCHANGED <<fsbVars, overflow_checks, frameVars, vgaVars, kernVars, bootVars, lockVars, probe>>

bump_alloc ==
    /\ ~panicked
    /\ BagCardinality(bump_live) < MaxLive
    /\ bump_calls < MaxBumpCalls
    /\ \E l \in BumpLayouts : BumpAllocBody(l[1], l[2])
    /\ cycle' = CycleAfterAlloc(last'.ptr, last'.align, allocations')
    /\ bump_calls' = bump_calls + 1
    /\ UNCHANGED <<fsbVars, overflow_checks, frameVars, vgaVars, kernVars, bootVars, lockVars, probe>>

bump_dealloc ==
    /\ ~panicked
    /\ bump_calls < MaxBumpCalls
    /\ \E a \in Live(bump_live) : BumpDeallocBody(a[1], a[2], a[3])
    /\ cycle' = CycleAfterDealloc(bump_live', allocations')
    /\ bump_calls' = bump_calls + 1
    /\ UNCHANGED <<fsbVars, overflow_checks, frameVars, vgaVars, kernVars, bootVars, lockVars, probe>>

BumpNext == bump_init \/ bump_alloc \/ bump_dealloc

BumpSpec == BumpSpecInit /\ [][BumpNext]_vars

(***************************************************************************)
(* The bump allocator with a caller that may call init in any state: init  *)
(* is a public method and tests nothing.                                   *)
(***************************************************************************)
bump_init_any ==
    /\ ~panicked
    /\ bump_calls < MaxBumpCalls
    /\ \E start \in BumpHeapStarts : BumpInitBody(start, BumpHeapSize)
    /\ cycle' = CycleNew
    /\ bump_calls' = bump_calls + 1
    /\ UNCHANGED <<fsbVars, overflow_checks, frameVars, vgaVars, kernVars, bootVars, lockVars, probe>>

ReinitNext == bump_init_any \/ bump_alloc \/ bump_dealloc

ReinitSpec == BumpSpecInit /\ [][ReinitNext]_vars

(***************************************************************************)
(* Both Locked allocators called from the main context and from an         *)
(* interrupt handler: a call is the steps lock, body, drop.                *)
(***************************************************************************)
\* the layouts the callers use
\* the request (8, 4096) makes align_up overflow on the second call; it is
\* issued in the build with overflow checks only: without them the wrapped
\* next walks the address space, which BumpSpec covers call by call
LockedLayouts(inst) ==
    IF inst = "fsb" THEN { <<2048, 4>>, <<16, 4096>> }
    ELSE { <<1024, 8>>, <<512, 1024>>, <<3584, 8>> }
            \cup (IF overflow_checks THEN { <<8, 4096>> } ELSE {})

LiveOf(inst) == IF inst = "fsb" THEN fsb_live ELSE bump_live

LockedInit ==
    /\ FsbNew
    /\ BumpNew
    /\ LockedNew
    /\ BootNew
    /\ KernelNew
    /\ FrameNew
    /\ WriterNew
    /\ installed \in Instances
    /\ overflow_checks \in BOOLEAN
    /\ last = NoCall
    /\ panicked = FALSE
    /\ probe = NoProbe

\* init_heap: ALLOCATOR.lock().init(HEAP_START, HEAP_SIZE), and the same
\* statement for a Locked<BumpAllocator>
StartInit(inst) ==
    /\ ~panicked
    /\ Running = "main"
    /\ pc["main"] = "idle"
    /\ IF inst = "fsb" THEN fb_size = 0 ELSE heap_end = 0
    /\ pc' = [pc EXCEPT !["main"] = "lock"]
    /\ call' = [call EXCEPT !["main"] =
                  IF inst = "fsb"
                  THEN [inst |-> inst, op |-> "init", size |-> HeapSize, align |-> 0,
                        ptr |-> HeapStart]
                  ELSE [inst |-> inst, op |-> "init", size |-> BumpHeapSize,
                        align |-> 0, ptr |-> BumpHeapStart]]
    /\ UNCHANGED <<fsbVars, bumpVars, bump_calls, overflow_checks, frameVars, vgaVars, kernVars, bootVars, lock, in_irq, installed,
                   last, panicked, probe>>

\* a context calls alloc
StartAlloc(c, inst) ==
    /\ ~panicked
    /\ c = Running
    /\ pc[c] = "idle"
    /\ BagCardinality(LiveOf(inst)) < MaxLive
    /\ \E l \in LockedLayouts(inst) :
          call' = [call EXCEPT ![c] = [inst |-> inst, op |-> "alloc", size |-> l[1],
                                       align |-> l[2], ptr |-> NULL]]
    /\ pc' = [pc EXCEPT ![c] = "lock"]
    /\ UNCHANGED <<fsbVars, bumpVars, bump_calls, overflow_checks, frameVars, vgaVars, kernVars, bootVars, lock, in_irq, installed,
                   last, panicked, probe>>

\* a context calls dealloc for a live allocation, which it gives up
StartDealloc(c, inst) ==
    /\ ~panicked
    /\ c = Running
    /\ pc[c] = "idle"
    /\ \E a \in Live(LiveOf(inst)) :
          /\ call' = [call EXCEPT ![c] = [inst |-> inst, op |-> "dealloc",
                                         size |-> a[2], align |-> a[3], ptr |-> a[1]]]
          /\ IF inst = "fsb"
             THEN /\ fsb_live' = RemoveLive(fsb_live, a)
                  /\ UNCHANGED <<list_heads, node_next, fb_bottom, fb_size, fb_used,
                                 freed_as, last_freed, bumpVars>>
             ELSE /\ bump_live' = RemoveLive(bump_live, a)
                  /\ UNCHANGED <<heap_start, heap_end, next, allocations, cycle, fsbVars>>
    /\ pc' = [pc EXCEPT ![c] = "lock"]
    /\ UNCHANGED <<bump_calls, overflow_checks, frameVars, vgaVars, kernVars, bootVars, lock, in_irq, installed, last,
                   panicked, probe>>

\* an interrupt arrives while interrupts are enabled
IrqEnter ==
    /\ ~panicked
    /\ ~in_irq
    /\ in_irq' = TRUE
    /\ UNCHANGED <<fsbVars, bumpVars, bump_calls, overflow_checks, frameVars, vgaVars, kernVars, bootVars, lock, pc, call, installed,
                   last, panicked, probe>>

\* the interrupt handler returns to the main context
IrqReturn ==
    /\ ~panicked
    /\ in_irq
    /\ pc["irq"] = "idle"
    /\ in_irq' = FALSE
    /\ UNCHANGED <<fsbVars, bumpVars, bump_calls, overflow_checks, frameVars, vgaVars, kernVars, bootVars, lock, pc, call, installed,
                   last, panicked, probe>>

LockedNext ==
    \/ StartInit(installed)
    \/ \E c \in Contexts : StartAlloc(c, installed)
    \/ \E c \in Contexts : StartDealloc(c, installed)
    \/ \E c \in Contexts : Acquire(c)
    \/ \E c \in Contexts : Body(c)
    \/ \E c \in Contexts : Release(c)
    \/ IrqEnter
    \/ IrqReturn

LockedSpec == LockedInit /\ [][LockedNext]_vars

(***************************************************************************)
(* list_index applied to one layout.                                       *)
(***************************************************************************)
\* largest size and alignment given to list_index
MaxProbeSize == 2100
MaxProbeAlignLog == 12

IndexInit ==
    /\ FsbNew
    /\ BumpNew
    /\ LockedNew
    /\ BootNew
    /\ KernelNew
    /\ FrameNew
    /\ WriterNew
    /\ installed = "fsb"
    /\ overflow_checks = FALSE
    /\ last = NoCall
    /\ panicked = FALSE
    /\ \E size \in 1..MaxProbeSize, k \in 0..MaxProbeAlignLog :
          probe = [fn |-> "list_index", size |-> size, align |-> 2^k, out |-> <<>>]

ApplyListIndex ==
    /\ probe.fn = "list_index"
    /\ probe.out = <<>>
    /\ probe' = [probe EXCEPT !.out = <<list_index(probe.size, probe.align)>>]
    /\ UNCHANGED <<fsbVars, bumpVars, bump_calls, overflow_checks, frameVars, vgaVars, kernVars, bootVars, lockVars, last, panicked>>

IndexNext == ApplyListIndex

IndexSpec == IndexInit /\ [][IndexNext]_vars

(***************************************************************************)
(* One call of init_heap, with a frame allocator that has any number of    *)
(* usable frames and a page table that may already map a heap page.        *)
(***************************************************************************)
\* a page that the boot loader mapped, read-only
BootMapping(p) == <<p, MaxFrames, {"PRESENT"}>>

HeapInitInit ==
    /\ FsbNew
    /\ BumpNew
    /\ LockedNew
    /\ installed = "fsb"
    /\ overflow_checks = FALSE
    /\ last = NoCall
    /\ panicked = FALSE
    /\ probe = NoProbe
    /\ KernelNew
    /\ FrameNew
    /\ WriterNew
    /\ boot = [pc |-> "idle", page |-> 0, frame |-> <<>>, inits |-> 0, result |-> <<>>]
    /\ \E total \in 0..MaxFrames : frames = [next |-> 0, total |-> total]
    /\ \/ mapped = {}
       \/ \E p \in page_range : mapped = {BootMapping(p)}

IhCall ==
    /\ boot.pc = "idle"
    /\ IhCallBody
    /\ UNCHANGED <<fsbVars, bumpVars, bump_calls, overflow_checks, frameVars, vgaVars, kernVars, lockVars, last,
                   panicked, probe>>

IhAllocateFrame ==
    /\ boot.pc = "frame"
    /\ IhAllocateFrameBody
    /\ UNCHANGED <<fsbVars, bumpVars, bump_calls, overflow_checks, frameVars, vgaVars, kernVars, lockVars, last,
                   panicked, probe>>

IhMapTo ==
    /\ boot.pc = "map"
    /\ \E tables \in 0..MaxTableFrames : IhMapToBody(tables)
    /\ UNCHANGED <<fsbVars, bumpVars, bump_calls, overflow_checks, frameVars, vgaVars, kernVars, lockVars, last,
                   panicked, probe>>

IhInit ==
    /\ boot.pc = "init"
    /\ IhInitBody
    /\ UNCHANGED <<bumpVars, bump_calls, overflow_checks, frameVars, vgaVars, kernVars, lockVars, probe>>

HeapInitNext == IhCall \/ IhAllocateFrame \/ IhMapTo \/ IhInit

HeapInitSpec == HeapInitInit /\ [][HeapInitNext]_vars

(***************************************************************************)
(* align_up and align_up_complicated applied to one address and alignment. *)
(***************************************************************************)
\* the addresses given to the two functions lie within MaxProbeAddr of the
\* bottom or of the top of the address space
MaxProbeAddr == 300

ProbeAddrs == (0..MaxProbeAddr) \cup ((USIZE_MAX - MaxProbeAddr)..USIZE_MAX)

AlignInit ==
    /\ FsbNew
    /\ BumpNew
    /\ LockedNew
    /\ BootNew
    /\ KernelNew
    /\ FrameNew
    /\ WriterNew
    /\ installed = "bump"
    /\ overflow_checks \in BOOLEAN
    /\ last = NoCall
    /\ panicked = FALSE
    /\ \E addr \in ProbeAddrs, align \in Pow2s :
          probe = [fn |-> "align", addr |-> addr, align |-> align,
                   up |-> <<>>, complicated |-> <<>>]

ApplyAlignUp ==
    /\ probe.fn = "align"
    /\ probe.up = <<>>
    /\ probe' = [probe EXCEPT !.up = Outcome(align_up(probe.addr, probe.align))]
    /\ UNCHANGED <<fsbVars, bumpVars, bump_calls, overflow_checks, frameVars, vgaVars, kernVars, bootVars, lockVars, last, panicked>>

ApplyAlignUpComplicated ==
    /\ probe.fn = "align"
    /\ probe.complicated = <<>>
    /\ probe' = [probe EXCEPT
                    !.complicated = Outcome(align_up_complicated(probe.addr, probe.align))]
    /\ UNCHANGED <<fsbVars, bumpVars, bump_calls, overflow_checks, frameVars, vgaVars, kernVars, bootVars, lockVars, last, panicked>>

AlignNext == ApplyAlignUp \/ ApplyAlignUpComplicated

AlignSpec == AlignInit /\ [][AlignNext]_vars

(***************************************************************************)
(* The console and the interrupt handlers: the main context runs lib::init *)
(* and prints; the timer and keyboard handlers run on top of it whenever   *)
(* the interrupt flag is set.  One step of the running context per action. *)
(***************************************************************************)
KernelInit ==
    /\ FsbNew
    /\ BumpNew
    /\ LockedNew
    /\ BootNew
    /\ KernelNew
    /\ FrameNew
    /\ WriterNew
    /\ installed = "fsb"
    /\ overflow_checks = FALSE
    /\ last = NoCall
    /\ panicked = FALSE
    /\ probe = NoProbe

otherVars == <<fsbVars, bumpVars, bump_calls, overflow_checks, frameVars, vgaVars, bootVars, lockVars,
               last, panicked, probe>>

lib_init ==
    /\ handler = "none"
    /\ LibInitStart \/ LibInitLock \/ LibInitUnlock \/ LibInitEnable
    /\ UNCHANGED otherVars

global_alloc ==
    /\ handler = "none"
    /\ KAllocStart \/ KAllocLock \/ KAllocUnlock
    /\ UNCHANGED otherVars

start_print ==
    /\ handler = "none"
    /\ \E op \in PrintOps : StartPrint(op)
    /\ UNCHANGED otherVars

without_interrupts ==
    /\ AreEnabled(KRunning) \/ Disable(KRunning) \/ Restore(KRunning)
    /\ UNCHANGED otherVars

console_lock ==
    /\ KAcquire(KRunning) \/ KWrite(KRunning) \/ KRelease(KRunning)
    /\ UNCHANGED otherVars

interrupt ==
    /\ \E h \in Handlers : IrqEntry(h)
    /\ UNCHANGED otherVars

keyboard_interrupt_handler ==
    /\ handler = "keyboard"
    /\ KbdLock \/ (\E key \in BOOLEAN : KbdRead(key))
    /\ UNCHANGED otherVars

notify_end_of_interrupt ==
    /\ handler # "none"
    /\ EoiLock \/ EoiUnlock \/ Iret
    /\ UNCHANGED otherVars

KernelNext ==
    \/ lib_init
    \/ global_alloc
    \/ start_print
    \/ without_interrupts
    \/ console_lock
    \/ interrupt
    \/ keyboard_interrupt_handler
    \/ notify_end_of_interrupt

KernelSpec == KernelInit /\ [][KernelNext]_vars

(***************************************************************************)
(* BootInfoFrameAllocator on one memory map.  The map has up to three      *)
(* regions, one after the other from frame 0, each of 0..MaxRegionFrames   *)
(* frames, usable or not.  The count of calls is capped: next is a usize   *)
(* and no run makes the 2^64 calls that would wrap it.                     *)
(***************************************************************************)
MaxRegionFrames == 2
MaxFrameCalls == 7

RegionTypes == {"Usable", "Reserved"}

\* the map with regions of the given lengths and types
MemoryMap(lens, types) ==
    [i \in 1..3 |->
        [start_frame |-> IF i = 1 THEN 0 ELSE IF i = 2 THEN lens[1]
                         ELSE lens[1] + lens[2],
         end_frame |-> IF i = 1 THEN lens[1] ELSE IF i = 2 THEN lens[1] + lens[2]
                       ELSE lens[1] + lens[2] + lens[3],
         region_type |-> types[i]]]

\* BootInfoFrameAllocator::init(memory_map): next = 0
FrameInit ==
    /\ FsbNew
    /\ BumpNew
    /\ LockedNew
    /\ KernelNew
    /\ WriterNew
    /\ installed = "fsb"
    /\ overflow_checks = FALSE
    /\ last = NoCall
    /\ panicked = FALSE
    /\ probe = NoProbe
    /\ boot = [pc |-> "idle", page |-> 0, frame |-> <<>>, inits |-> 0, result |-> <<>>]
    /\ mapped = {}
    /\ frames = [next |-> 0, total |-> 0]
    /\ returned = <<>>
    /\ \E lens \in [1..3 -> 0..MaxRegionFrames], types \in [1..3 -> RegionTypes] :
          memory_map = MemoryMap(lens, types)

AllocateFrame ==
    /\ Len(returned) < MaxFrameCalls
    /\ AllocateFrameBody
    /\ UNCHANGED <<fsbVars, bumpVars, bump_calls, overflow_checks, vgaVars, kernVars,
                   boot, mapped, lockVars, last, panicked, probe>>

FrameNext == AllocateFrame

FrameSpec == FrameInit /\ [][FrameNext]_vars

(***************************************************************************)
(* The VGA writer given strings one after the other by one caller.         *)
(***************************************************************************)
MaxWritten == 7
MaxStrLen == 2

\* a newline, two printable bytes and a byte outside the printable range
Bytes == {NEWLINE, 65, 66, 128}

Strings == UNION { [1..k -> Bytes] : k \in 1..MaxStrLen }

\* the screen holds what ran before the writer was first used
WriterInit ==
    /\ FsbNew
    /\ BumpNew
    /\ LockedNew
    /\ BootNew
    /\ KernelNew
    /\ FrameNew
    /\ installed = "fsb"
    /\ overflow_checks = FALSE
    /\ last = NoCall
    /\ panicked = FALSE
    /\ probe = NoProbe
    /\ column_position = 0
    /\ written = <<>>
    /\ \E byte \in {BLANK, 65} : buffer = [row \in Rows |-> [col \in Cols |-> byte]]

WriteString ==
    \E s \in Strings :
        /\ ~panicked
        /\ Len(written) + Len(s) <= MaxWritten
        /\ LET w == write_string(Writer(column_position, buffer, FALSE), s)
           IN  /\ column_position' = w.column_position
               /\ buffer' = w.buffer
               /\ panicked' = w.oob
        /\ written' = written \o s
        /\ UNCHANGED <<fsbVars, bumpVars, bump_calls, overflow_checks, frameVars, kernVars, bootVars,
                       lockVars, last, probe>>

WriterNext == WriteString

WriterSpec == WriterInit /\ [][WriterNext]_vars

(***************************************************************************)
(* Properties of the fixed-size-block allocator.                           *)
(***************************************************************************)
LargestBlock == BlockSize(Len(BLOCK_SIZES) - 1)

\* C1: no two simultaneously live allocations overlap: every live
\* allocation is live once, and the ranges [address, address + size) of two
\* different live allocations are disjoint.
C1_NoOverlap ==
    \A a \in Live(fsb_live) :
        /\ fsb_live[a] = 1
        /\ \A b \in Live(fsb_live) :
              a # b => Disjoint(a[1], a[2], b[1], b[2])

\* two live allocations, the later one served by a block popped from a free list
C1_Witness ==
    /\ BagCardinality(fsb_live) >= 2
    /\ last.op = "alloc"
    /\ last.ptr # NULL
    /\ last.freed # <<>>

\* C2: every non-null address alloc(size, align) returns is a multiple of
\* align, also when the block is reused under another layout of its class.
C2_Aligned ==
    /\ \A a \in Live(fsb_live) : a[1] % a[3] = 0
    /\ (last.op = "alloc" /\ last.ptr # NULL) => last.ptr % last.align = 0

\* a block freed with align 8 is handed out again for a layout with align 256
C2_Witness ==
    /\ last.op = "alloc"
    /\ last.ptr # NULL
    /\ last.freed = <<500, 8>>
    /\ <<last.size, last.align>> = <<260, 256>>

\* C3: an alloc of a class whose latest call was the dealloc of block A
\* returns A, and the head of the list becomes the successor of A.
C3_ReuseHead ==
    [][\A i \in Indices :
          (last_freed[i] # NULL /\ last_freed'[i] = NULL) =>
              /\ last'.op = "alloc"
              /\ last'.ptr = last_freed[i]
              /\ list_heads'[i] = node_next[last_freed[i]]]_vars

\* a freed block is handed out again under the other layout of its class
\* while another free block stays behind on the list
C3_Witness ==
    /\ last.op = "alloc"
    /\ last.freed # <<>>
    /\ last.freed # <<last.size, last.align>>
    /\ \E i \in Indices : list_heads[i] # NULL /\ freed_as[list_heads[i]] # last.freed

\* the class sizes that can hold a layout
ClassesFor(size, align) ==
    { i \in Indices : BlockSize(i) >= size /\ BlockSize(i) >= align }

\* C4: list_index returns the index of the smallest class >= max(size, align),
\* and none exactly when max(size, align) > 2048; (17, 8) selects class 32.
C4_SmallestClass ==
    /\ (probe.fn = "list_index" /\ probe.out # <<>>) =>
          LET res == probe.out[1]
              fit == ClassesFor(probe.size, probe.align)
          IN  /\ (res = <<>>) <=> (probe.size > 2048 \/ probe.align > 2048)
              /\ (res = <<>>) <=> (fit = {})
              /\ res # <<>> =>
                    /\ res[1] \in fit
                    /\ \A j \in fit : BlockSize(res[1]) <= BlockSize(j)
    /\ (probe.fn = "list_index" /\ probe.out # <<>>
            /\ probe.size = 17 /\ probe.align = 8) => BlockSize(probe.out[1][1]) = 32

\* list_index has been applied to a size that is exactly a class size
C4_Witness ==
    /\ probe.fn = "list_index"
    /\ probe.size = 16
    /\ probe.align = 8
    /\ probe.out = << <<1>> >>

\* C5: an alloc whose max(size, align) exceeds the largest class calls the
\* fallback allocator with the caller's own layout and changes no free list.
C5_OversizeRouting ==
    [][(last'.op = "alloc" /\ Max(last'.size, last'.align) > LargestBlock) =>
          /\ list_heads' = list_heads
          /\ node_next' = node_next
          /\ last'.fb # <<>>
          /\ last'.fb[1] = "alloc"
          /\ last'.fb[2] = last'.size
          /\ last'.fb[3] = last'.align
          /\ last'.ptr = last'.fb[4]]_vars

\* an oversized alloc was served while a free list was non-empty
C5_Witness ==
    /\ last.op = "alloc"
    /\ Max(last.size, last.align) > LargestBlock
    /\ last.ptr # NULL
    /\ \E i \in Indices : list_heads[i] # NULL

\* C6: alloc never panics, and returns null whenever the fallback allocator
\* fails; the layout of a new block is valid for every class.
C6_AllocNeverHalts ==
    /\ last.op = "alloc" => ~panicked
    /\ (last.op = "alloc" /\ last.fb # <<>> /\ last.fb[5] = "Err") => last.ptr = NULL
    /\ \A i \in Indices : LayoutOk(BlockSize(i), block_align(BlockSize(i)))

\* the fallback allocator failed for a new block of a class, after init
C6_Witness ==
    /\ last.op = "alloc"
    /\ last.fb # <<>>
    /\ last.fb[5] = "Err"
    /\ Max(last.size, last.align) <= LargestBlock
    /\ fb_size > 0
    /\ last.ptr = NULL
    /\ ~panicked

(***************************************************************************)
(* Properties of Locked<A>.                                                *)
(***************************************************************************)
\* the state of the allocator inside each Locked
AllocatorState(inst) ==
    IF inst = "fsb" THEN <<list_heads, node_next, fb_bottom, fb_size, fb_used>>
    ELSE <<heap_start, heap_end, next, allocations>>

\* C7: at most one context is between the acquisition and the release of
\* the lock of an instance, and the state of the allocator changes only in
\* a step of the context that holds the lock.
C7_MutualExclusion ==
    /\ [](\A i \in Instances :
            /\ Cardinality(Holders(i)) <= 1
            /\ Holders(i) # {} => lock[i])
    /\ [][\A i \in Instances :
            AllocatorState(i)' # AllocatorState(i) =>
                /\ lock[i]
                /\ Holders(i) = {Running}
                /\ pc[Running] = "body"
                /\ pc'[Running] = "drop"]_vars

\* the interrupt handler executes a body while the main context, which it
\* interrupted inside Locked::lock, waits for the same lock
C7_Witness ==
    /\ in_irq
    /\ pc["main"] = "lock"
    /\ pc["irq"] = "drop"
    /\ call["main"].inst = call["irq"].inst
    /\ lock[call["irq"].inst]

\* C8: when a call returns, on any path, the lock of its instance is free:
\* the lock is free whenever no context is between acquisition and release,
\* and a context in Locked::lock can then acquire it.
C8_LockReleased ==
    /\ [](\A i \in Instances : Holders(i) = {} => ~lock[i])
    /\ [][\A c \in Contexts :
            (pc[c] = "drop" /\ pc'[c] = "idle") => ~lock'[call[c].inst]]_vars
    /\ [](\A c \in Contexts :
            (~panicked /\ c = Running /\ pc[c] = "lock"
                /\ Holders(call[c].inst) = {}) => ENABLED Acquire(c))

\* the bump alloc has returned through the early return of checked_add,
\* and the next call is in Locked::lock
C8_Witness ==
    /\ last.op = "alloc"
    /\ last.path = "overflow"
    /\ last.ptr = NULL
    /\ ~lock["bump"]
    /\ pc["main"] = "lock"
    /\ pc["irq"] = "idle"
    /\ call["main"].inst = "bump"

\* C9: a call started by the interrupt handler while the main context it
\* interrupted holds the lock of the same instance never acquires the lock,
\* and neither call completes: no step is possible any more.
C9_ReentrancyDeadlock ==
    (in_irq /\ pc["irq"] = "lock" /\ "main" \in Holders(call["irq"].inst)) =>
        ~ENABLED LockedNext

\* the interrupt handler calls alloc while the interrupted alloc holds the lock
C9_Witness ==
    /\ in_irq
    /\ pc["irq"] = "lock"
    /\ call["irq"].op = "alloc"
    /\ pc["main"] = "body"
    /\ call["main"].op = "alloc"
    /\ call["main"].inst = call["irq"].inst
    /\ lock[call["irq"].inst]

(***************************************************************************)
(* Properties of the bump allocator.                                       *)
(***************************************************************************)
\* C10: no two simultaneously live allocations of the bump allocator
\* overlap: every live allocation is live once, and the ranges
\* [address, address + size) of two different live allocations are disjoint.
C10_BumpNoOverlap ==
    \A a \in Live(bump_live) :
        /\ bump_live[a] = 1
        /\ \A b \in Live(bump_live) :
              a # b => Disjoint(a[1], a[2], b[1], b[2])

\* the smallest multiple of align that is at least addr, as an integer
RoundUp(addr, align) == ((addr + align - 1) \div align) * align

\* C11: after init, a bump alloc returns null whenever the aligned start plus
\* the size lies beyond heap_end, and every non-null address it returns has
\* [address, address + size) inside [heap_start, heap_end).
C11_OutOfMemoryBoundary ==
    [][(last'.op = "alloc" /\ heap_end # 0) =>
          /\ RoundUp(next, last'.align) + last'.size > heap_end =>
                 last'.ptr = NULL
          /\ last'.ptr # NULL =>
                 /\ heap_start <= last'.ptr
                 /\ last'.ptr + last'.size <= heap_end]_vars

\* C12: every non-null address returned by a bump alloc is a multiple of the
\* requested alignment.
C12_BumpAligned ==
    (last.op = "alloc" /\ last.ptr # NULL) => last.ptr % last.align = 0

\* an alloc returned an address it had to round up to: the allocation before
\* it ended off the boundary
C12_Witness ==
    /\ last.op = "alloc"
    /\ last.ptr # NULL
    /\ last.align = 1024
    /\ \E a \in Live(bump_live) :
          /\ a[1] < last.ptr
          /\ (a[1] + a[2]) % last.align # 0
          /\ last.ptr - (a[1] + a[2]) < last.align

\* C13 as stated: once every allocation of a cycle has been deallocated, the
\* next allocation returns the address of the first allocation of the cycle.
C13_ReclaimSameAddress ==
    [][(cycle.done /\ last'.op = "alloc" /\ last'.ptr # NULL) =>
          last'.ptr = cycle.first]_vars

\* C13 (amended): once every allocation of a cycle has been deallocated, next
\* is heap_start again and the next allocation returns heap_start rounded up
\* to its own alignment, which is the address of the first allocation of the
\* cycle when the two alignments are equal; a dealloc resets next exactly
\* when the count of allocations returns to 0.
C13_ReclaimFromHeapStart ==
    [][/\ (cycle.done /\ last'.op = "alloc" /\ last'.ptr # NULL) =>
             /\ last'.ptr = RoundUp(heap_start, last'.align)
             /\ last'.align = cycle.align => last'.ptr = cycle.first
       /\ cycle'.done => (next' = heap_start /\ allocations' = 0)
       /\ last'.op = "dealloc" => (last'.path = "reset" <=> allocations' = 0)]_vars

\* the two allocations of a cycle have been deallocated and the allocation
\* that followed has returned the address of the first of them
C13_Witness ==
    /\ last.op = "alloc"
    /\ cycle.n = 1
    /\ cycle.prev_n = 2
    /\ cycle.prev = last.ptr

\* C14: a bump alloc whose aligned start or whose end exceeds the machine
\* word fails as an exhausted heap does: it returns null, changes neither
\* next nor the count of allocations, and does not panic.
C14_OverflowFails ==
    [][(/\ last'.op = "alloc"
        /\ \/ RoundUp(next, last'.align) > USIZE_MAX
           \/ RoundUp(next, last'.align) + last'.size > USIZE_MAX) =>
          /\ ~panicked'
          /\ last'.ptr = NULL
          /\ next' = next
          /\ allocations' = allocations]_vars

\* C15: in every state after init, heap_start <= next <= heap_end, and the
\* count of allocations has not gone below zero: no dealloc has panicked on
\* the decrement, and the count has not wrapped to a value above the number
\* of calls made.
C15_BumpStateInvariant ==
    heap_end # 0 =>
        /\ heap_start <= next
        /\ next <= heap_end
        /\ allocations >= 0
        /\ allocations <= bump_calls
        /\ ~(last.op = "dealloc" /\ last.path = "panic")

(***************************************************************************)
(* Properties of align_up and align_up_complicated.                        *)
(***************************************************************************)
\* C16: when the smallest multiple of align that is at least addr fits the
\* machine word, align_up returns it: a multiple of align, at least addr and
\* less than align above it, and addr itself when addr is a multiple.
C16_AlignUpSmallest ==
    (/\ probe.fn = "align"
     /\ probe.up # <<>>
     /\ \E m \in probe.addr..USIZE_MAX : m % probe.align = 0) =>
        /\ probe.up[1] = "ok"
        /\ probe.up[2] % probe.align = 0
        /\ probe.up[2] >= probe.addr
        /\ probe.up[2] - probe.addr < probe.align
        /\ probe.addr % probe.align = 0 => probe.up[2] = probe.addr

\* align_up has rounded an address near the top of the address space up to
\* a multiple of 64
C16_Witness ==
    /\ probe.fn = "align"
    /\ probe.align = 64
    /\ probe.addr > USIZE_MAX - MaxProbeAddr
    /\ probe.addr % 64 = 1
    /\ probe.up = <<"ok", probe.addr + 63>>

\* C17: align_up and align_up_complicated have the same outcome for every
\* address and every power-of-two alignment: the same value, or an overflow
\* in both.
C17_AlignUpsAgree ==
    (/\ probe.fn = "align"
     /\ probe.up # <<>>
     /\ probe.complicated # <<>>) =>
        probe.up = probe.complicated

(***************************************************************************)
(* Properties of init_heap.                                                *)
(***************************************************************************)
\* the pages that hold a byte of [HEAP_START, HEAP_START + HEAP_SIZE)
HeapPages ==
    { p \in 0..(USIZE_MAX \div PageSize) :
        \E a \in HeapStart..(HeapStart + HeapSize - 1) :
            p * PageSize <= a /\ a < (p + 1) * PageSize }

\* page p is mapped present and writable to a frame the frame allocator
\* handed out
HeapPageMapped(p) ==
    \E m \in mapped :
        /\ m[1] = p
        /\ m[2] < frames.next /\ m[2] < frames.total
        /\ {"PRESENT", "WRITABLE"} \subseteq m[3]

\* C18: init runs at most once in a call of init_heap, and in every state
\* in which it has run every page of the heap is mapped present and writable
\* to a frame of the frame allocator.
C18_InitAfterMapping ==
    /\ boot.inits <= 1
    /\ (boot.inits > 0 \/ fb_size # 0) => \A p \in HeapPages : HeapPageMapped(p)

\* init_heap has returned Ok: it has mapped the heap without any new page
\* table and then run init
C18_Witness ==
    /\ boot.pc = "done"
    /\ boot.result = <<"Ok">>
    /\ boot.inits = 1
    /\ fb_size = HeapSize
    /\ frames.next = Cardinality(HeapPages)

\* C19: once init_heap has an error it returns it: FrameAllocationFailed when
\* the frame allocator had no frame for the page, the mapper's error when
\* map_to failed; the pages after the failing one are not mapped, init has
\* not run and the allocator is as new() left it.
C19_InitHeapFailure ==
    /\ ~(boot.pc \in {"frame", "map", "init"} /\ frames.next > frames.total)
    /\ boot.result # <<>> /\ boot.result[1] = "Err" =>
          /\ boot.pc = "done"
          /\ boot.result[2] \in {"FrameAllocationFailed", "PageAlreadyMapped"}
          /\ \A m \in mapped : m[1] > boot.page => m = BootMapping(m[1])
          /\ ~HeapPageMapped(boot.page)
          /\ boot.inits = 0
          /\ fb_size = 0 /\ fb_bottom = 0 /\ fb_used = {}
          /\ \A i \in Indices : list_heads[i] = NULL

\* the frame allocator ran out at the third page: two pages are mapped
C19_Witness ==
    /\ boot.result = <<"Err", "FrameAllocationFailed">>
    /\ boot.frame = <<>>
    /\ Cardinality(mapped) = 2
    /\ boot.page = containing_address(HeapStart) + 2
    /\ fb_size = 0

(***************************************************************************)
(* Properties of an allocator that has not been initialized.               *)
(***************************************************************************)
\* the allocator is in the state new() produced
AsNew(inst) ==
    IF inst = "fsb"
    THEN /\ \A i \in Indices : list_heads[i] = NULL
         /\ fb_bottom = 0 /\ fb_size = 0 /\ fb_used = {}
    ELSE heap_start = 0 /\ heap_end = 0 /\ next = 0 /\ allocations = 0

\* C20 as stated: the body of an alloc that finds the allocator in the state
\* new() produced halts the kernel.
C20_AllocBeforeInitHalts ==
    [][\A c \in Contexts :
          (/\ pc[c] = "body" /\ pc'[c] = "drop"
           /\ call[c].op = "alloc"
           /\ AsNew(call[c].inst)) => panicked']_vars

\* C20 (amended): the body of an alloc that finds the allocator in the state
\* new() produced returns null, does not halt the kernel and leaves the
\* allocator in that state.
C20_AllocBeforeInitFails ==
    [][\A c \in Contexts :
          (/\ pc[c] = "body" /\ pc'[c] = "drop"
           /\ call[c].op = "alloc"
           /\ AsNew(call[c].inst)) =>
              /\ ~panicked'
              /\ last'.op = "alloc"
              /\ last'.ptr = NULL
              /\ AllocatorState(call[c].inst)' = AllocatorState(call[c].inst)]_vars

\* an alloc on a bump allocator that was never initialized has returned null
C20_Witness ==
    /\ installed = "bump"
    /\ pc["main"] = "drop"
    /\ call["main"].op = "alloc"
    /\ AsNew("bump")
    /\ last.op = "alloc"
    /\ last.ptr = NULL
    /\ ~panicked

(***************************************************************************)
(* More properties of the fixed-size-block allocator.                      *)
(***************************************************************************)
\* C21: for every class index that list_index returns, the two assertions
\* of dealloc hold: the size and the alignment of a ListNode are at most the
\* block size of the class.
C21_AssertionsHold ==
    (probe.fn = "list_index" /\ probe.out # <<>> /\ probe.out[1] # <<>>) =>
        /\ LIST_NODE_SIZE <= BlockSize(probe.out[1][1])
        /\ LIST_NODE_ALIGN <= BlockSize(probe.out[1][1])

\* list_index has returned the smallest class, whose blocks have the size of
\* a ListNode
C21_Witness ==
    /\ probe.fn = "list_index"
    /\ probe.size = 1
    /\ probe.align = 1
    /\ probe.out = <<<<0>>>>
    /\ BlockSize(0) = LIST_NODE_SIZE

\* the nodes reached from node a by following at most fuel links
RECURSIVE ListFrom(_, _, _)
ListFrom(nexts, a, fuel) ==
    IF a = NULL \/ fuel = 0 \/ a \notin DOMAIN nexts THEN <<>>
    ELSE <<a>> \o ListFrom(nexts, nexts[a], fuel - 1)

\* the free list of class i, from its head, in the memory nexts
FreeList(heads, nexts, i) ==
    ListFrom(nexts, heads[i], Cardinality(DOMAIN nexts) + 1)

\* the class of the layout of a call, <<>> when it has none
ClassOf(c) == list_index(c.size, c.align)

\* C27: a dealloc of a layout with a class puts the freed block in front of
\* the list of the class, its link being the previous head; an alloc of a
\* class with a non-empty list takes the block at the front: the lists are
\* LIFO and change in length by one per dealloc and per pop
C27_PushPopLifo ==
    [][/\ (last'.op = "dealloc" /\ ClassOf(last') # <<>>) =>
            LET i == ClassOf(last')[1]
            IN  /\ list_heads'[i] = last'.ptr
                /\ node_next'[last'.ptr] = list_heads[i]
                /\ FreeList(list_heads', node_next', i)
                      = <<last'.ptr>> \o FreeList(list_heads, node_next, i)
       /\ (last'.op = "alloc" /\ ClassOf(last') # <<>>
              /\ list_heads[ClassOf(last')[1]] # NULL) =>
            LET i == ClassOf(last')[1]
            IN  FreeList(list_heads, node_next, i)
                  = <<last'.ptr>> \o FreeList(list_heads', node_next', i)]_vars

\* the block freed last has been handed out and the block freed before it
\* is the head of the list
C27_Witness ==
    /\ last.op = "alloc"
    /\ last.freed # <<>>
    /\ ClassOf(last) # <<>>
    /\ list_heads[ClassOf(last)[1]] # NULL
    /\ last.ptr \in { a[1] : a \in Live(fsb_live) }

\* C28: an alloc of a class whose list is empty asks the fallback allocator
\* for (class size, class size), so every block on the list of class i is a
\* region of BLOCK_SIZES[i] bytes aligned to BLOCK_SIZES[i]
C28_NewBlockLayout ==
    /\ [][(last'.op = "alloc" /\ ClassOf(last') # <<>>
              /\ list_heads[ClassOf(last')[1]] = NULL) =>
            /\ last'.fb # <<>>
            /\ last'.fb[1] = "alloc"
            /\ last'.fb[2] = BlockSize(ClassOf(last')[1])
            /\ last'.fb[3] = BlockSize(ClassOf(last')[1])]_vars
    /\ [](\A i \in Indices :
            \A k \in 1..Len(FreeList(list_heads, node_next, i)) :
                LET a == FreeList(list_heads, node_next, i)[k]
                IN  /\ a % BlockSize(i) = 0
                    /\ <<a, BlockSize(i)>> \in fb_used)

\* a block asked for a layout smaller than its class is on the list of the
\* class, and a new block of another class has just been taken
C28_Witness ==
    /\ last.op = "alloc"
    /\ last.fb # <<>>
    /\ last.ptr # NULL
    /\ ClassOf(last) # <<>>
    /\ \E i \in Indices :
          /\ list_heads[i] # NULL
          /\ freed_as[list_heads[i]][1] < BlockSize(i)
          /\ i # ClassOf(last)[1]

\* C29: a dealloc of a layout with no class gives the region to the
\* fallback allocator with the layout of the caller and changes no list;
\* no block on a list was freed with such a layout
C29_OversizeDealloc ==
    /\ [][(last'.op = "dealloc" /\ Max(last'.size, last'.align) > LargestBlock) =>
            /\ list_heads' = list_heads
            /\ node_next' = node_next
            /\ last'.fb = <<"dealloc", last'.size, last'.align, last'.ptr, "Ok">>
            /\ <<last'.ptr, last'.size>> \notin fb_used']_vars
    /\ [](\A a \in DOMAIN node_next :
            Max(freed_as[a][1], freed_as[a][2]) <= LargestBlock)

\* an oversized region has gone back to the fallback allocator while a
\* block is on a list
C29_Witness ==
    /\ last.op = "dealloc"
    /\ Max(last.size, last.align) > LargestBlock
    /\ last.fb # <<>>
    /\ \E i \in Indices : list_heads[i] # NULL

\* all the nodes of all the lists, one list after the other
RECURSIVE AllNodes(_)
AllNodes(i) ==
    IF i \notin Indices THEN <<>>
    ELSE FreeList(list_heads, node_next, i) \o AllNodes(i + 1)

\* C30: no block is both live and on a free list, no block is twice on the
\* lists, every list ends, and a block leaves its list exactly in the alloc
\* of its class that returns it
C30_FreeListIntegrity ==
    /\ [](/\ \A a \in Live(fsb_live) : \A k \in 1..Len(AllNodes(0)) :
                AllNodes(0)[k] # a[1]
          /\ \A i \in Indices : \A a \in Live(fsb_live) :
                \A k \in 1..Len(FreeList(list_heads, node_next, i)) :
                    Disjoint(a[1], a[2], FreeList(list_heads, node_next, i)[k],
                             BlockSize(i))
          /\ \A j, k \in 1..Len(AllNodes(0)) :
                AllNodes(0)[j] = AllNodes(0)[k] => j = k
          /\ Len(AllNodes(0)) = Cardinality(DOMAIN node_next)
          /\ \A a \in DOMAIN node_next :
                node_next[a] = NULL \/ node_next[a] \in DOMAIN node_next)
    /\ [][\A i \in Indices :
            \A k \in 1..Len(FreeList(list_heads, node_next, i)) :
                LET a == FreeList(list_heads, node_next, i)[k]
                IN  (a \notin DOMAIN node_next') <=>
                        /\ last'.op = "alloc"
                        /\ last'.ptr = a
                        /\ ClassOf(last') = <<i>>]_vars

\* a block has left its list for an alloc while another list holds a block
\* and an allocation is live besides
C30_Witness ==
    /\ last.op = "alloc"
    /\ last.freed # <<>>
    /\ BagCardinality(fsb_live) = 2
    /\ \E i \in Indices : list_heads[i] # NULL /\ <<i>> # ClassOf(last)

\* C31: a dealloc of a layout with a class never calls the fallback
\* allocator and leaves the regions the fallback has given out as they are;
\* the blocks on the lists stay allocated in the fallback allocator
C31_BlocksStayInClass ==
    /\ [][(last'.op = "dealloc" /\ ClassOf(last') # <<>>) =>
            /\ last'.fb = <<>>
            /\ fb_used' = fb_used]_vars
    /\ [](\A i \in Indices : \A a \in DOMAIN node_next :
            (\E k \in 1..Len(FreeList(list_heads, node_next, i)) :
                FreeList(list_heads, node_next, i)[k] = a)
            => \E r \in fb_used : r[1] = a /\ r[2] >= BlockSize(i))

\* every allocation has been freed, and an alloc of a class whose list is
\* empty fails in the fallback allocator while the list of another class
\* holds the memory
C31_Witness ==
    /\ last.op = "alloc"
    /\ ClassOf(last) # <<>>
    /\ last.fb # <<>>
    /\ last.fb[5] = "Err"
    /\ last.ptr = NULL
    /\ fsb_live = EmptyBag
    /\ \E i \in Indices : list_heads[i] # NULL /\ <<i>> # ClassOf(last)
    /\ \E r \in fb_used : r[2] >= last.fb[2]

(***************************************************************************)
(* Termination of the calls on a Locked allocator.                         *)
(***************************************************************************)
\* C34: a call that finds the lock free takes it; the holder of the lock
\* can always take its next step; the body is one step of the holder and
\* ends with an address, null or a finished dealloc, never in a halt; the
\* step after it releases the lock and ends the call
C34_CallsComplete ==
    /\ [](\A c \in Contexts :
            (c = Running /\ ~panicked) =>
                /\ (pc[c] = "lock" /\ ~lock[call[c].inst]) => ENABLED Acquire(c)
                /\ pc[c] = "body" => ENABLED Body(c)
                /\ pc[c] = "drop" => ENABLED Release(c))
    /\ [][\A c \in Contexts :
            /\ (pc[c] = "body" /\ pc'[c] # "body") =>
                  (pc'[c] = "drop" /\ ~panicked')
            /\ (pc[c] = "drop" /\ pc'[c] # "drop") => pc'[c] = "idle"]_vars

(***************************************************************************)
(* Properties of the console locks.                                        *)
(***************************************************************************)
\* the locks of the two consoles
ConsoleLocks == {"WRITER", "SERIAL1"}

\* C22: WRITER and SERIAL1 are held only with interrupts disabled: no handler
\* runs while the interrupted context holds one of them, and a handler that
\* waits for one of them can take it at once
C22_ConsoleLocksInsideSection ==
    /\ \A l \in ConsoleLocks : klock[l] # "none" => ~interrupts_enabled
    /\ handler # "none" => \A l \in ConsoleLocks : klock[l] # "main"
    /\ (handler # "none" /\ kpc["irq"] = "lock") => ENABLED KAcquire("irq")

\* the keyboard handler prints a key while the main context is inside a print
C22_Witness ==
    /\ handler = "keyboard"
    /\ klock["WRITER"] = "irq"
    /\ kop["main"] \in PrintOps
    /\ kpc["main"] = "disable"

\* the lock context c is waiting for, <<>> when it waits for none
WaitsFor(c) ==
    IF kpc[c] = "lock" THEN <<LockOf(kop[c])>>
    ELSE IF kpc[c] = "pics_lock" \/ kpc[c] = "eoi_lock" THEN <<"PICS">>
    ELSE IF kpc[c] = "kbd_lock" THEN <<"KEYBOARD">>
    ELSE IF kpc[c] = "alloc_lock" THEN <<"ALLOCATOR">>
    ELSE <<>>

\* C32: the context that runs never waits for a lock that is held (a lock
\* held then is held by the context it interrupted, or by itself); no
\* handler holds ALLOCATOR; init holds PICS only with interrupts disabled
C32_NoSpinOnInterrupted ==
    /\ WaitsFor(KRunning) # <<>> => klock[WaitsFor(KRunning)[1]] = "none"
    /\ klock["ALLOCATOR"] # "irq"
    /\ WaitsFor("irq") # <<"ALLOCATOR">>
    /\ klock["PICS"] = "main" => ~interrupts_enabled

\* the keyboard handler has interrupted an allocation that holds ALLOCATOR
\* and waits for WRITER to print a key
C32_Witness ==
    /\ handler = "keyboard"
    /\ klock["ALLOCATOR"] = "main"
    /\ klock["KEYBOARD"] = "irq"
    /\ WaitsFor("irq") = <<"WRITER">>
    /\ pics_initialized

(***************************************************************************)
(* Properties of the VGA writer.                                           *)
(***************************************************************************)
\* the last bytes written are a newline, k printable bytes and a newline
LineWritten(k) ==
    LET n == Len(written)
    IN  /\ n >= k + 2
        /\ written[n] = NEWLINE
        /\ written[n - k - 1] = NEWLINE
        /\ \A i \in 1..k : Printable(written[n - k - 1 + i])

\* C23: after a newline, a string s of at most BUFFER_WIDTH printable bytes
\* and a newline, s is in columns 0..len(s)-1 of row BUFFER_HEIGHT-2 and
\* column_position is 0
C23_LinePlacement ==
    \A k \in 0..BUFFER_WIDTH :
        LineWritten(k) =>
            /\ column_position = 0
            /\ \A i \in 1..k :
                  buffer[BUFFER_HEIGHT - 2][i - 1] = written[Len(written) - k - 1 + i]

\* a string that fills the row, written after the writer had left column 0
C23_Witness ==
    /\ LineWritten(BUFFER_WIDTH)
    /\ Len(written) > BUFFER_WIDTH + 2
    /\ Printable(written[1])
    /\ \A i \in 1..BUFFER_WIDTH : buffer[BUFFER_HEIGHT - 2][i - 1] \in {65, 66}
    /\ \E i \in 1..BUFFER_WIDTH : buffer[BUFFER_HEIGHT - 2][i - 1] # buffer[BUFFER_HEIGHT - 2][0]

DeallocStep == bump_calls' # bump_calls /\ last'.op = "dealloc"

AllocStep == bump_calls' # bump_calls /\ last'.op = "alloc"

\* C26: an alloc that fails (returns null) leaves next and the count as they
\* are; one that succeeds sets next to align_up(next, align) + size and adds
\* one to the count; a request that ends at heap_end succeeds
C26_AllocEffect ==
    [][AllocStep =>
        LET end == RoundUp(next, last'.align) + last'.size
        IN  /\ last'.ptr = NULL => (next' = next /\ allocations' = allocations)
            /\ last'.ptr # NULL => (next' = end /\ allocations' = allocations + 1)
            /\ end = heap_end => last'.ptr # NULL]_vars

\* C33: the column stays within 0..BUFFER_WIDTH, no write uses an index
\* outside the buffer, and a byte written with the column at BUFFER_WIDTH
\* goes to column 0 of the last row after a new line
C33_WriterBounds ==
    /\ column_position \in 0..BUFFER_WIDTH
    /\ ~panicked
    /\ DOMAIN buffer = Rows
    /\ \A row \in Rows : DOMAIN buffer[row] = Cols
    /\ column_position = BUFFER_WIDTH =>
          \A byte \in Bytes \ {NEWLINE} :
              LET w == write_byte(Writer(column_position, buffer, FALSE), byte)
              IN  /\ ~w.oob
                  /\ w.column_position = 1
                  /\ w.buffer[BUFFER_HEIGHT - 1][0] = byte
                  /\ w.buffer[BUFFER_HEIGHT - 2] = buffer[BUFFER_HEIGHT - 1]

\* one byte more than a row holds has been written without a newline: the
\* full row has moved up and the last byte is alone on the last row
C33_Witness ==
    /\ Len(written) > BUFFER_WIDTH
    /\ \A i \in 0..BUFFER_WIDTH : written[Len(written) - i] # NEWLINE
    /\ column_position = 1
    /\ \A col \in Cols : buffer[BUFFER_HEIGHT - 2][col] # BLANK
    /\ \A col \in Cols : col > 0 => buffer[BUFFER_HEIGHT - 1][col] = BLANK

(***************************************************************************)
(* Properties of the frame allocator.                                      *)
(***************************************************************************)
\* the frames of the usable regions of the map
UsableSet ==
    { f \in 0..(3 * (MaxRegionFrames + 1)) :
        \E i \in 1..Len(memory_map) :
            /\ memory_map[i].region_type = "Usable"
            /\ memory_map[i].start_frame <= f
            /\ f < memory_map[i].end_frame }

\* C35: the k-th call of allocate_frame returns the k-th frame of the usable
\* regions, a frame is returned once, never from a region that is not
\* usable, and every call after the last usable frame returns none
C35_UnusedFramesOnly ==
    \A k \in 1..Len(returned) :
        /\ k <= Cardinality(UsableSet) =>
              /\ returned[k] # <<>>
              /\ returned[k][1] \in UsableSet
              /\ Cardinality({ f \in UsableSet : f < returned[k][1] }) = k - 1
        /\ k > Cardinality(UsableSet) => returned[k] = <<>>
        /\ \A j \in 1..Len(returned) :
              (j # k /\ returned[k] # <<>>) => returned[j] # returned[k]

\* the frames of two usable regions around a reserved one have been handed
\* out, and two more calls returned none
C35_Witness ==
    /\ Len(memory_map) = 3
    /\ memory_map[1].region_type = "Usable"
    /\ memory_map[2].region_type = "Reserved"
    /\ memory_map[3].region_type = "Usable"
    /\ \A i \in 1..3 : memory_map[i].end_frame > memory_map[i].start_frame
    /\ Len(returned) = Cardinality(UsableSet) + 2
    /\ returned[Len(returned)] = <<>>
    /\ returned[Len(returned) - 1] = <<>>
====
